---- MODULE Spec2Model ----
(***************************************************************************)
(* bowline: worker-pool Processor, ProcessorChain and ProcessorGraph.      *)
(* The main thread (the caller) and every worker instance are processes of *)
(* the model; multiprocessing queues are FIFO sequences held in `queues`   *)
(* and referred to by their index, so that two fields naming the same      *)
(* Queue object name the same index.                                       *)
(***************************************************************************)
EXTENDS Integers, Sequences, FiniteSets, TLC

\* ---------------------------------------------------------------- bounds
MaxInstances == 2
MaxPush == 2
MaxSignals == 2
MaxSourceOut == 1
MaxShutdownCalls == 2
MaxStartCalls == 2
MaxEdges == 3
MaxOutputQueues == 2
MaxChainLen == 2

\* ------------------------------------------------------- values and types
Procs == {"P1", "P2", "P3"}
Inst == 0 .. (MaxInstances - 1)

\* Python's None as a payload / as a declared model
None == -1
\* the empty list [] where it is a returned value
EmptyList == -2
NoModel == "None"
Models == {"AddInputModel", "AddOutputModel", "SquareOutputModel", "SquareRootOutputModel"}

\* a Queue reference that is None
NoQueue == 0

\* setup_function = None, and the setup function of the tests
NoFunction == "None"
SetupFunctions == {"generate_number"}

\* kwargs = {} (line 182), written as the generated_number it adds to a result;
\* generate_number returns {"generated_number": 10}
NoKwargs == 0
SetupValue(f) ==
    10

Result(p, v) ==
    [processor |-> p, output |-> v]

NoResult ==
    [processor |-> "None", output |-> None]

\* truth value of a value in `if`, `not` and `and`: None, False (0), 0 and []
\* are false
Truthy(v) ==
    v # None /\ v # 0 /\ v # EmptyList

\* type(x) where x is a declared model: a model class is an instance of the
\* pydantic metaclass, None is an instance of NoneType
TypeOf(m) ==
    IF m = NoModel THEN "NoneType" ELSE "ModelMetaclass"

\* the value the target function of processor p returns on input x when it
\* returns normally
TargetFunction(p, x) ==
    CASE p = "P1" -> x + 1
      [] p = "P2" -> 2 * x
      [] OTHER    -> x + 10

\* the value a source stage's target function returns (called without argument)
SourceValue(p) ==
    TargetFunction(p, 0)

RECURSIVE SumTo(_, _)
SumTo(f, n) ==
    IF n = 0 THEN 0 ELSE f[n - 1] + SumTo(f, n - 1)

MapSeq(p, s) ==
    [k \in 1 .. Len(s) |-> TargetFunction(p, s[k])]

\* ------------------------------------------------------------------ state
VARIABLES
    \* Processor fields
    input_model, output_model, instances, target_function, setup_function,
    input_queue, output_queues, processes, signal_queues, stats,
    \* the multiprocessing.Queue objects created so far
    queues,
    \* worker instances: position in _run, its arguments and locals
    wpc, run_input_queue, run_output_queues, kwargs, winput, wresult, wk,
    \* ProcessorChain.processors
    chain,
    \* ProcessorGraph._processor_graph (keys in insertion order, child lists)
    graph_keys, graph_children, current_terminal_processor_index,
    \* the calling thread: position, processor and index it works on,
    \* value returned and exception raised by its last completed call,
    \* and the container call (chain / graph) it is inside of, with its index
    cpc, cp, ci, ret, raised, opc, oi,
    \* history of the caller's calls
    pushed, outputs, shutdown_calls, shutdown_returns, start_calls,
    \* every ProcessorGraph.get_output call so far found output at every terminal
    saturated,
    \* per terminal processor: the ProcessorGraph.get_output calls begun while it
    \* had output since its output was last returned
    waited,
    \* the position the ProcessorGraph.get_output call in progress examined
    \* first, None when no such call is in progress
    poll_from,
    \* "new" until start succeeds, then "started", "shutdown" once a shutdown
    \* call made after that has returned
    lifecycle

procVars == <<input_model, output_model, instances, target_function, setup_function,
              input_queue, output_queues, processes, signal_queues, stats>>
workerVars == <<wpc, run_input_queue, run_output_queues, kwargs, winput, wresult, wk>>
containerVars == <<chain, graph_keys, graph_children, current_terminal_processor_index>>
callerVars == <<cpc, cp, ci, ret, raised, opc, oi>>
historyVars == <<pushed, outputs, shutdown_calls, shutdown_returns, start_calls, lifecycle,
                 saturated, waited, poll_from>>

vars == <<procVars, queues, workerVars, containerVars, callerVars, historyVars>>

\* ------------------------------------------------------------ construction
\* Queue(): a new empty queue; its reference is Len(queues) + 1
NewQueue(qs) ==
    Append(qs, <<>>)

\* HasQueue of a constructor that creates no queue
QueueAtStart(m) ==
    FALSE

\* lines 162 and 164: `if self.input_model:`, `if self.output_model:`; the
\* constructor creates the queue of a declared model
HasQueue(m) ==
    m # NoModel

\* Processor._setup for the processors of `order` (constructed in that order),
\* given their declared models: the queue references each one gets
RECURSIVE SetupQueues(_, _, _, _)
SetupQueues(order, im, om, n) ==
    IF order = <<>> THEN [p \in {} |-> <<NoQueue, <<>>>>]
    ELSE LET p == Head(order)
             hasIn == HasQueue(im[p])
             hasOut == HasQueue(om[p])
             inq == IF hasIn THEN n + 1 ELSE NoQueue
             n1 == IF hasIn THEN n + 1 ELSE n
             outqs == IF hasOut THEN <<n1 + 1>> ELSE <<>>
             n2 == IF hasOut THEN n1 + 1 ELSE n1
             rest == SetupQueues(Tail(order), im, om, n2)
         IN [q \in {p} \cup DOMAIN rest |->
                IF q = p THEN <<inq, outqs>> ELSE rest[q]]

RECURSIVE CountQueues(_, _, _)
CountQueues(order, im, om) ==
    IF order = <<>> THEN 0
    ELSE (IF HasQueue(im[Head(order)]) THEN 1 ELSE 0)
         + (IF HasQueue(om[Head(order)]) THEN 1 ELSE 0)
         + CountQueues(Tail(order), im, om)

Range(s) ==
    {s[k] : k \in 1 .. Len(s)}

\* the state after the processors of `order` have been constructed with models
\* im/om, instance counts n, target behaviours tf and setup functions sf;
\* nothing started
ConstructedWith(order, im, om, n, tf, sf) ==
    LET sq == SetupQueues(order, im, om, 0)
    IN /\ input_model = im
       /\ output_model = om
       /\ instances = n
       /\ target_function = tf
       /\ setup_function = sf
       /\ kwargs = [p \in Procs |-> [i \in Inst |-> NoKwargs]]
       /\ input_queue = [p \in Procs |-> IF p \in Range(order) THEN sq[p][1] ELSE NoQueue]
       /\ output_queues = [p \in Procs |-> IF p \in Range(order) THEN sq[p][2] ELSE <<>>]
       /\ queues = [k \in 1 .. CountQueues(order, im, om) |-> <<>>]
       /\ processes = [p \in Procs |-> <<>>]
       /\ signal_queues = [p \in Procs |-> [i \in Inst |-> 0]]
       /\ stats = [p \in Procs |-> [i \in Inst |-> 0]]
       /\ wpc = [p \in Procs |-> [i \in Inst |-> "none"]]
       /\ run_input_queue = [p \in Procs |-> NoQueue]
       /\ run_output_queues = [p \in Procs |-> <<>>]
       /\ winput = [p \in Procs |-> [i \in Inst |-> None]]
       /\ wresult = [p \in Procs |-> [i \in Inst |-> None]]
       /\ wk = [p \in Procs |-> [i \in Inst |-> 0]]
       /\ cpc = "idle"
       /\ cp = "P1"
       /\ ci = 0
       /\ ret = NoResult
       /\ raised = "none"
       /\ opc = "none"
       /\ oi = 0
       /\ pushed = <<>>
       /\ outputs = <<>>
       /\ shutdown_calls = [p \in Procs |-> 0]
       /\ shutdown_returns = [p \in Procs |-> 0]
       /\ start_calls = 0
       /\ saturated = TRUE
       /\ poll_from = None
       /\ waited = [p \in Procs |-> 0]
       /\ lifecycle = [p \in Procs |-> "new"]

\* the same without setup functions (setup_function: Optional[Callable] = None)
Constructed(order, im, om, n, tf) ==
    ConstructedWith(order, im, om, n, tf, [p \in Procs |-> NoFunction])

\* ------------------------------------------------------ queue primitives
\* QueueGet handing out the newest item instead of the oldest
QueueGetNewest(q) ==
    <<q[Len(q)], SubSeq(q, 1, Len(q) - 1)>>

\* Queue.get on a non-empty queue: the item handed out and what remains
QueueGet(q) ==
    <<Head(q), Tail(q)>>

\* QueuePut of a queue that takes a new item at its head
QueuePutFirst(q, v) ==
    <<v>> \o q

\* Queue.put
QueuePut(q, v) ==
    Append(q, v)

\* Process.is_alive
is_alive(p, i) ==
    /\ i + 1 <= Len(processes[p])
    /\ wpc[p][i] \notin {"none", "dead"}

Alive(p) ==
    {i \in 0 .. (instances[p] - 1) : is_alive(p, i)}

\* ------------------------------------------------------ Processor._run
\* SetW writing to the local of every instance
SetEveryW(f, p, i, v) ==
    [f EXCEPT ![p] = [j \in Inst |-> v]]

\* a local of instance i of processor p is assigned: each worker process has
\* its own
SetW(f, p, i, v) ==
    [f EXCEPT ![p][i] = v]

\* SignalExit of a worker that reads the signal and goes on with its iteration
SignalIgnored ==
    "input"

\* line 190-192: where a worker that read a shutdown signal goes (it returns)
SignalExit ==
    "dead"

\* SignalPresent of a worker that never looks at its signal queue
SignalNeverSeen(p, i) ==
    FALSE

\* line 188: `not signal_queue.empty()`
SignalPresent(p, i) ==
    signal_queues[p][i] > 0

\* lines 187-192: the signal check at the top of every iteration
RunCheckSignal(p, i) ==
    /\ wpc[p][i] = "check"
    /\ IF SignalPresent(p, i)
       THEN /\ signal_queues' = SetW(signal_queues, p, i, signal_queues[p][i] - 1)
            /\ wpc' = SetW(wpc, p, i, SignalExit)
            /\ UNCHANGED <<wresult, winput>>
       ELSE /\ wpc' = SetW(wpc, p, i, "input")
            /\ wresult' = SetW(wresult, p, i, None)
            /\ UNCHANGED <<signal_queues, winput>>
    /\ UNCHANGED <<input_model, output_model, instances, target_function, setup_function,
                   input_queue, output_queues, processes, stats, queues,
                   run_input_queue, run_output_queues, kwargs, wk,
                   containerVars, callerVars, historyVars>>

\* TimeoutStats counting the timed-out wait as a processed input
TimeoutStatsCounting(st, p, i) ==
    [st EXCEPT ![p][i] = @ + 1]

\* what a dequeue timeout does to the counter (lines 207-208: nothing)
TimeoutStats(st, p, i) ==
    st

\* lines 198, 207-208, 217: the wait times out on an empty queue (queue.Empty);
\* result is None, so nothing is put and the next iteration begins
RunTimeout(p, i) ==
    /\ wpc[p][i] = "input"
    /\ run_input_queue[p] # NoQueue
    /\ queues[run_input_queue[p]] = <<>>
    /\ wpc' = SetW(wpc, p, i, "check")
    /\ stats' = TimeoutStats(stats, p, i)
    /\ UNCHANGED <<input_model, output_model, instances, target_function, setup_function,
                   input_queue, output_queues, processes, signal_queues, queues,
                   run_input_queue, run_output_queues, kwargs, winput, wresult, wk,
                   containerVars, callerVars, historyVars>>

\* the number of items in all queues
TotalQueued ==
    SumTo([k \in 0 .. (Len(queues) - 1) |-> Len(queues[k + 1])], Len(queues))

\* the target function of a source stage returns a value while fewer than
\* MaxSourceOut items are queued, handled by a later stage or returned to the
\* caller, and None after that
SourceBudget ==
    TotalQueued + SumTo(stats["P1"], MaxInstances) + SumTo(stats["P2"], MaxInstances)
       + SumTo(stats["P3"], MaxInstances) + Len(outputs) < MaxSourceOut

\* the value target_function leaves in `result`: its return value, or None
\* when it raised (the exception is caught and logged, lines 199-203, 211-215)
Invoke(p, x) ==
    CASE target_function[p] = "ok"    -> IF x = None THEN SourceValue(p) ELSE TargetFunction(p, x)
      [] target_function[p] = "falsy" -> 0
      [] OTHER                        -> None

\* lines 200, 212: target_function(..., **kwargs): the value returned by a
\* target that returns normally, given what the setup function left in kwargs
\* (the target of the tests adds generated_number to its result)
WithKwargs(p, i, result) ==
    IF target_function[p] = "ok" /\ result # None THEN result + kwargs[p][i] ELSE result

\* AfterInvoke with the counter update inside the try block of the call
AfterInvokeSkippingCount(p) ==
    IF target_function[p] = "raise" THEN "afterwards" ELSE "count"

\* line 204-206: after the call of line 200 the worker updates the counter,
\* whether the call returned or raised
AfterInvoke(p) ==
    "count"

\* PutOrCheck without the test of the result
PutAnyResult(p, result) ==
    IF run_output_queues[p] # <<>> THEN "put" ELSE "check"

\* line 217: with output queues and a true result the worker goes on to put the
\* result (from the first queue on), otherwise to its next iteration
PutOrCheck(p, result) ==
    IF run_output_queues[p] # <<>> /\ Truthy(result) THEN "put" ELSE "check"

\* a local of the worker at position pos: one that is not read again before the
\* next iteration assigns it (lines 194, 198, 218) is kept at its initial value
Local(f, p, i, pos, v, init) ==
    SetW(f, p, i, IF pos = "check" THEN init ELSE v)

\* where the worker is after the call of the target function, which left result
AfterCall(p, position, result) ==
    IF position = "count" THEN "count" ELSE PutOrCheck(p, result)

\* lines 198-200: input_queue.get(timeout=1) hands out an item and the target
\* function is called with it; a call that never returns keeps the worker here
RunDequeue(p, i) ==
    /\ wpc[p][i] = "input"
    /\ run_input_queue[p] # NoQueue
    /\ queues[run_input_queue[p]] # <<>>
    /\ LET g == QueueGet(queues[run_input_queue[p]])
           pos == AfterCall(p, AfterInvoke(p), WithKwargs(p, i, Invoke(p, g[1])))
       IN /\ queues' = [queues EXCEPT ![run_input_queue[p]] = g[2]]
          /\ IF target_function[p] = "hang"
             THEN /\ wpc' = SetW(wpc, p, i, "invoke")
                  /\ winput' = SetW(winput, p, i, g[1])
                  /\ UNCHANGED <<wresult, wk>>
             ELSE /\ wpc' = SetW(wpc, p, i, pos)
                  /\ wresult' = Local(wresult, p, i, pos, WithKwargs(p, i, Invoke(p, g[1])), None)
                  /\ wk' = Local(wk, p, i, pos, 1, 0)
                  /\ UNCHANGED winput
    /\ UNCHANGED <<procVars, run_input_queue, run_output_queues, kwargs,
                   containerVars, callerVars, historyVars>>

\* what the target function of a source stage returns now
SourceResult(p) ==
    IF run_output_queues[p] = <<>> \/ SourceBudget THEN Invoke(p, None) ELSE None

\* lines 210-215: without input queue the target function is called without
\* argument
RunInvoke(p, i) ==
    /\ wpc[p][i] = "input"
    /\ run_input_queue[p] = NoQueue
    /\ target_function[p] # "hang"
    /\ wpc' = SetW(wpc, p, i, PutOrCheck(p, WithKwargs(p, i, SourceResult(p))))
    /\ wresult' = Local(wresult, p, i, PutOrCheck(p, WithKwargs(p, i, SourceResult(p))), WithKwargs(p, i, SourceResult(p)), None)
    /\ wk' = Local(wk, p, i, PutOrCheck(p, WithKwargs(p, i, SourceResult(p))), 1, 0)
    /\ UNCHANGED <<procVars, queues, run_input_queue, run_output_queues, kwargs, winput,
                   containerVars, callerVars, historyVars>>

\* lines 204-206: the counter is incremented after the call, raised or not
RunCount(p, i) ==
    /\ wpc[p][i] = "count"
    /\ stats' = SetW(stats, p, i, stats[p][i] + 1)
    /\ wpc' = SetW(wpc, p, i, PutOrCheck(p, wresult[p][i]))
    /\ wresult' = Local(wresult, p, i, PutOrCheck(p, wresult[p][i]), wresult[p][i], None)
    /\ wk' = Local(wk, p, i, PutOrCheck(p, wresult[p][i]), 1, 0)
    /\ UNCHANGED <<input_model, output_model, instances, target_function, setup_function,
                   input_queue, output_queues, processes, signal_queues, queues,
                   run_input_queue, run_output_queues, kwargs, winput,
                   containerVars, callerVars, historyVars>>

\* NextPut of a loop that stops after the first output queue
PutOnce(p, k) ==
    Len(run_output_queues[p]) + 1

\* line 218: the for loop goes on to the next output queue
NextPut(p, k) ==
    k + 1

\* lines 218-219: the result is put on the output queues, one after another;
\* after the last one the next iteration begins
RunPut(p, i) ==
    /\ wpc[p][i] = "put"
    /\ queues' = [queues EXCEPT ![run_output_queues[p][wk[p][i]]] =
                      QueuePut(@, wresult[p][i])]
    /\ LET pos == IF NextPut(p, wk[p][i]) > Len(run_output_queues[p])
                  THEN "check" ELSE "put"
       IN /\ wpc' = SetW(wpc, p, i, pos)
          /\ wk' = Local(wk, p, i, pos, NextPut(p, wk[p][i]), 0)
          /\ wresult' = Local(wresult, p, i, pos, wresult[p][i], None)
    /\ UNCHANGED <<procVars, run_input_queue, run_output_queues, kwargs, winput,
                   containerVars, callerVars, historyVars>>

\* a setup function that returns or raises, as it happens
FailingSetup == "setup_may_raise"

\* how a call of the setup function f can end
SetupOutcomes(f) ==
    IF f = FailingSetup THEN {"return", "raise"} ELSE {"return"}

\* SetupRaised of a worker that catches the exception and enters its loop
SetupCaught ==
    "check"

\* line 184 is in no try block: an exception of the setup function ends the
\* worker process
SetupRaised ==
    "dead"

\* lines 181-184, before the loop: kwargs = setup_function()
RunSetup(p, i) ==
    /\ wpc[p][i] = "setup"
    /\ \E outcome \in SetupOutcomes(setup_function[p]) :
          IF outcome = "raise"
          THEN /\ wpc' = SetW(wpc, p, i, SetupRaised)
               /\ UNCHANGED kwargs
          ELSE /\ kwargs' = SetW(kwargs, p, i, SetupValue(setup_function[p]))
               /\ wpc' = SetW(wpc, p, i, "check")
    /\ UNCHANGED <<procVars, queues, run_input_queue, run_output_queues, winput, wresult, wk,
                   containerVars, callerVars, historyVars>>

_run(p, i) ==
    \/ RunCheckSignal(p, i)
    \/ RunDequeue(p, i)
    \/ RunTimeout(p, i)
    \/ RunInvoke(p, i)
    \/ RunCount(p, i)
    \/ RunPut(p, i)

\* ------------------------------------------------------ Processor (caller side)
\* the caller is between two calls
Idle ==
    cpc = "idle" /\ opc = "none"

\* FirstPosition of a worker that never calls the setup function
LoopPosition(p) ==
    "check"

\* lines 181-186: a worker begins with the call of the setup function when
\* there is one, at the top of the loop otherwise
FirstPosition(p) ==
    IF setup_function[p] # NoFunction THEN "setup" ELSE "check"

\* the effect of Processor.start on the processor's workers (lines 103-115):
\* one Process per instance, each handed the queues the processor has now
Spawn(p) ==
    /\ processes' = [processes EXCEPT ![p] = [k \in 1 .. instances[p] |-> k - 1]]
    /\ wpc' = [wpc EXCEPT ![p] = [i \in Inst |-> IF i < instances[p] THEN FirstPosition(p) ELSE "none"]]
    /\ run_input_queue' = [run_input_queue EXCEPT ![p] = input_queue[p]]
    /\ run_output_queues' = [run_output_queues EXCEPT ![p] = output_queues[p]]

\* AlreadyStarted of a start that spawns again on every call
NeverAlreadyStarted(p) ==
    FALSE

\* line 101: `if self._processes`
AlreadyStarted(p) ==
    processes[p] # <<>>

\* Processor.start, lines 101-115: what the call does to the processor
StartEffect(p) ==
    /\ IF AlreadyStarted(p)
       THEN /\ raised' = "RuntimeError"
            /\ UNCHANGED <<processes, wpc, run_input_queue, run_output_queues, lifecycle>>
       ELSE /\ raised' = "none"
            /\ Spawn(p)
            /\ lifecycle' = [lifecycle EXCEPT ![p] = "started"]
    /\ UNCHANGED <<input_model, output_model, instances, target_function, setup_function,
                   input_queue, output_queues, signal_queues, stats, queues,
                   kwargs, winput, wresult, wk, containerVars, cpc, cp, ci, ret,
                   pushed, outputs, shutdown_calls, shutdown_returns, start_calls, saturated, waited, poll_from>>

\* Processor.start called by the caller
start(p) ==
    /\ Idle
    /\ StartEffect(p)
    /\ UNCHANGED <<opc, oi>>

\* the payload of the next input: the inputs pushed are numbered 1, 2, ... (the
\* program never looks into a payload, so distinct payloads are the general case)
NextInput ==
    Len(pushed) + 1

\* Processor.push_input
push_input(p, v) ==
    /\ Idle
    /\ Len(pushed) < MaxPush
    /\ IF input_model[p] = NoModel \/ input_queue[p] = NoQueue
       THEN /\ raised' = "ValueError"
            /\ UNCHANGED <<queues, pushed>>
       ELSE /\ raised' = "none"
            /\ queues' = [queues EXCEPT ![input_queue[p]] = QueuePut(@, v)]
            /\ pushed' = Append(pushed, v)
    /\ UNCHANGED <<procVars, workerVars, containerVars,
                   cpc, cp, ci, ret, opc, oi, outputs, shutdown_calls, shutdown_returns,
                   start_calls, lifecycle, saturated, waited, poll_from>>

\* a returned value that is not a Result
Value(v) ==
    [processor |-> "None", output |-> v]

\* AnyNonEmpty with all() in the place of any()
AllNonEmpty(p) ==
    IF \A k \in 1 .. Len(output_queues[p]) : queues[output_queues[p][k]] # <<>> THEN 1 ELSE 0

\* line 132: any(not output_queue.empty() for output_queue in self._output_queues),
\* True being 1 and False 0
AnyNonEmpty(p) ==
    IF \E k \in 1 .. Len(output_queues[p]) : queues[output_queues[p][k]] # <<>> THEN 1 ELSE 0

\* line 132: the value of `self._output_queues and any(...)`, which is the
\* list itself when the list is empty
HasOutputValue(p) ==
    IF output_queues[p] = <<>> THEN EmptyList ELSE AnyNonEmpty(p)

\* Processor.has_output where its value is tested (`if`, `while not`)
has_output(p) ==
    Truthy(HasOutputValue(p))

\* Processor.has_output called by the caller of the processor
HasOutputCall(p) ==
    /\ Idle
    /\ ret' = Value(HasOutputValue(p))
    /\ raised' = "none"
    /\ UNCHANGED <<procVars, queues, workerVars, containerVars, cpc, cp, ci, opc, oi,
                   historyVars>>

\* ScanStart of a scan that begins at the queue attached last
ScanStartLast(p) ==
    Len(output_queues[p])

\* line 127: the for loop begins at the first output queue of the list
ScanStart(p) ==
    1

\* Processor.get_output, line 125-126: the first test of the call
GetOutputCall(p) ==
    /\ raised' = "none"
    /\ IF \/ output_queues[p] = <<>>
          \/ \A k \in 1 .. Len(output_queues[p]) : queues[output_queues[p][k]] = <<>>
       THEN /\ ret' = NoResult
            /\ UNCHANGED <<cpc, cp, ci>>
       ELSE /\ cpc' = "get_scan"
            /\ cp' = p
            /\ ci' = ScanStart(p)
            /\ UNCHANGED ret
    /\ UNCHANGED <<procVars, queues, workerVars, chain, graph_keys, graph_children,
                   pushed, outputs, shutdown_calls, shutdown_returns, start_calls, lifecycle>>

\* Processor.get_output called by the caller
get_output(p) ==
    /\ Idle
    /\ GetOutputCall(p)
    /\ UNCHANGED <<opc, oi, current_terminal_processor_index, saturated, waited, poll_from>>

\* line 127-128: the scan for the first queue that is not empty
GetOutputScan ==
    /\ cpc = "get_scan"
    /\ IF ci > Len(output_queues[cp])
       THEN /\ ret' = NoResult
            /\ cpc' = "idle"
            /\ ci' = 0
       ELSE IF queues[output_queues[cp][ci]] # <<>>
            THEN /\ cpc' = "get_get"
                 /\ UNCHANGED <<ret, ci>>
            ELSE /\ ci' = ci + 1
                 /\ UNCHANGED <<ret, cpc>>
    /\ UNCHANGED <<procVars, queues, workerVars, containerVars, cp, raised, opc, oi, historyVars>>

\* line 129: output_queue.get() blocks until an item is there
GetOutputGet ==
    /\ cpc = "get_get"
    /\ queues[output_queues[cp][ci]] # <<>>
    /\ LET g == QueueGet(queues[output_queues[cp][ci]])
       IN /\ ret' = Result(cp, g[1])
          /\ outputs' = Append(outputs, Result(cp, g[1]))
          /\ queues' = [queues EXCEPT ![output_queues[cp][ci]] = g[2]]
    /\ cpc' = "idle"
    /\ ci' = 0
    /\ waited' = [waited EXCEPT ![cp] = 0]
    /\ UNCHANGED <<procVars, workerVars, containerVars, cp, raised, opc, oi,
                   pushed, shutdown_calls, shutdown_returns, start_calls, lifecycle, saturated, poll_from>>

\* ------------------------------------------------------ BaseProcessor.shutdown
\* AliveAtCall of a first scan that takes every process handle, alive or not
AliveAtCallUnfiltered(p) ==
    processes[p] # <<>>

\* line 66-67: alive_processes of the first scan is non-empty
AliveAtCall(p) ==
    Alive(p) # {}

\* line 73 / 67: alive_processes of the rescan is non-empty
AliveProcesses(p) ==
    Alive(p) # {}

\* what the return of a shutdown call does to the history
Returned(p) ==
    /\ shutdown_returns' = [shutdown_returns EXCEPT ![p] = @ + 1]
    /\ lifecycle' = [lifecycle EXCEPT ![p] = IF @ = "new" THEN "new" ELSE "shutdown"]

\* line 66-67: the call, the first scan for alive processes; what it does to
\* the processor and to the calling thread
ShutdownEffect(p) ==
    /\ cpc = "idle"
    /\ shutdown_calls[p] < MaxShutdownCalls
    /\ shutdown_calls' = [shutdown_calls EXCEPT ![p] = @ + 1]
    /\ raised' = "none"
    /\ cp' = p
    /\ ci' = 0
    /\ IF AliveAtCall(p)
       THEN /\ cpc' = "sd_for"
            /\ UNCHANGED <<shutdown_returns, lifecycle>>
       ELSE /\ cpc' = "idle"
            /\ Returned(p)
    /\ UNCHANGED <<procVars, queues, workerVars, containerVars, ret,
                   pushed, outputs, start_calls, saturated, waited, poll_from>>

\* BaseProcessor.shutdown called by the caller
shutdown(p) ==
    /\ ShutdownEffect(p)
    /\ UNCHANGED <<opc, oi>>

\* SignalWanted of a pass that signals every instance, alive or not
SignalEvery(p, i) ==
    TRUE

\* line 69: an instance is signalled when it is alive
SignalWanted(p, i) ==
    is_alive(p, i)

\* line 68-69 and 73: the for loop over the instances, its is_alive test, and
\* the rescan at the end of a pass
ShutdownFor ==
    /\ cpc = "sd_for"
    /\ IF ci < instances[cp]
       THEN /\ IF SignalWanted(cp, ci)
               THEN cpc' = "sd_put" /\ ci' = ci
               ELSE cpc' = "sd_for" /\ ci' = ci + 1
            /\ UNCHANGED <<shutdown_returns, lifecycle>>
       ELSE IF AliveProcesses(cp)
            THEN /\ cpc' = "sd_for"
                 /\ ci' = 0
                 /\ UNCHANGED <<shutdown_returns, lifecycle>>
            ELSE /\ cpc' = "idle"
                 /\ ci' = 0
                 /\ Returned(cp)
    /\ UNCHANGED <<procVars, queues, workerVars, containerVars, cp, ret, raised, opc, oi,
                   pushed, outputs, shutdown_calls, start_calls, saturated, waited, poll_from>>

\* line 70: the shutdown signal is put on the instance's signal queue
ShutdownPut ==
    /\ cpc = "sd_put"
    /\ signal_queues' = SetW(signal_queues, cp, ci, signal_queues[cp][ci] + 1)
    /\ cpc' = "sd_join"
    /\ UNCHANGED <<input_model, output_model, instances, target_function, setup_function,
                   input_queue, output_queues, processes, stats, queues,
                   workerVars, containerVars, cp, ci, ret, raised, opc, oi, historyVars>>

\* line 72: join(timeout=10) returns when the process has exited or after the
\* timeout (a timeout leads to one more signal, so it is bounded here)
ShutdownJoin ==
    /\ cpc = "sd_join"
    /\ \/ ~is_alive(cp, ci)
       \/ signal_queues[cp][ci] < MaxSignals
    /\ cpc' = "sd_for"
    /\ ci' = ci + 1
    /\ UNCHANGED <<procVars, queues, workerVars, containerVars, cp, ret, raised, opc, oi,
                   historyVars>>

\* ------------------------------------------------------ a Processor on its own
NoContainer ==
    /\ chain = <<>>
    /\ graph_keys = <<>>
    /\ graph_children = [p \in Procs |-> <<>>]
    /\ current_terminal_processor_index = -1

\* one processor constructed with the given models, instance count and target
\* behaviour; nothing started
OneProcessor(im, om, n, tf) ==
    /\ Constructed(<<"P1">>,
                   [p \in Procs |-> IF p = "P1" THEN im ELSE NoModel],
                   [p \in Procs |-> IF p = "P1" THEN om ELSE NoModel],
                   [p \in Procs |-> IF p = "P1" THEN n ELSE 0],
                   [p \in Procs |-> tf])
    /\ NoContainer

Workers(p) ==
    \E i \in Inst : _run(p, i)

\* data path of one processor: start, push_input, get_output and its workers
InitProcessor ==
    \E im \in {"AddInputModel", NoModel}, om \in {"AddOutputModel", NoModel},
       n \in 1 .. MaxInstances, tf \in {"ok", "raise", "falsy"} :
       OneProcessor(im, om, n, tf)

NextProcessor ==
    \/ start("P1")
    \/ push_input("P1", NextInput)
    \/ get_output("P1")
    \/ GetOutputScan
    \/ GetOutputGet
    \/ Workers("P1")

Spec ==
    InitProcessor /\ [][NextProcessor]_vars

\* life cycle of one processor: start, push_input, shutdown and its workers; the
\* target function returns, or never returns ("hang"); the processor with an
\* output model is a source stage whose target function returns
InitShutdown ==
    \E im \in {"AddInputModel", NoModel}, om \in {"AddOutputModel", NoModel},
       n \in 1 .. MaxInstances, tf \in {"ok", "hang"} :
       /\ om # NoModel => (im = NoModel /\ tf = "ok")
       /\ OneProcessor(im, om, n, tf)

ShutdownSteps ==
    \/ ShutdownFor
    \/ ShutdownPut
    \/ ShutdownJoin

NextShutdown ==
    \/ start("P1")
    \/ push_input("P1", NextInput)
    \/ (Idle /\ shutdown("P1"))
    \/ ShutdownSteps
    \/ Workers("P1")

SpecShutdown ==
    InitShutdown /\ [][NextShutdown]_vars

\* every worker process and the thread inside shutdown keep being scheduled
SpecShutdownFair ==
    /\ InitShutdown
    /\ [][NextShutdown]_vars
    /\ \A i \in Inst : WF_vars(_run("P1", i))
    /\ WF_vars(ShutdownSteps)

TypeOK ==
    /\ cpc \in {"idle", "get_scan", "get_get", "sd_for", "sd_put", "sd_join"}
    /\ opc \in {"none", "chain_start", "graph_start", "graph_get", "chain_shutdown",
               "graph_shutdown"}
    /\ raised \in {"none", "ValueError", "RuntimeError", "TypeError"}
    /\ \A p \in Procs : \A i \in Inst :
          /\ wpc[p][i] \in {"none", "setup", "check", "input", "invoke", "count", "put", "dead"}
          /\ signal_queues[p][i] \in 0 .. MaxSignals
          /\ stats[p][i] \in 0 .. MaxPush

\* ------------------------------------------------------ properties: Processor
\* workers of p that hold a dequeued input not yet counted
InFlight(p) ==
    {i \in 0 .. (instances[p] - 1) : wpc[p][i] \in {"invoke", "count"}}

Processed(p) ==
    SumTo(stats[p], instances[p])

\* C1: with a target function that never fails, the processed counters of all
\* instances never add up to more than the inputs pushed; they count exactly the
\* inputs dequeued and handled (a dequeue timeout counts nothing), and when every
\* pushed input has been dequeued and handled the sum is the number pushed
C1_ProcessedCount ==
    (target_function["P1"] = "ok" /\ input_queue["P1"] # NoQueue) =>
        /\ Processed("P1") <= Len(pushed)
        /\ Processed("P1") + Cardinality({i \in InFlight("P1") : wpc["P1"][i] = "count"})
              + Cardinality({i \in InFlight("P1") : wpc["P1"][i] = "invoke"})
              + Len(queues[input_queue["P1"]]) = Len(pushed)
        /\ (queues[input_queue["P1"]] = <<>> /\ InFlight("P1") = {})
              => Processed("P1") = Len(pushed)

\* two instances have handled MaxPush inputs between them
C1_Witness ==
    /\ target_function["P1"] = "ok"
    /\ instances["P1"] = 2
    /\ Len(pushed) = MaxPush
    /\ queues[input_queue["P1"]] = <<>>
    /\ InFlight("P1") = {}
    /\ Processed("P1") = MaxPush
    /\ stats["P1"][0] > 0
    /\ stats["P1"][1] > 0

\* the result the single instance of p holds and has not put on the queue yet
Pending(p) ==
    CASE wpc[p][0] = "invoke" -> <<TargetFunction(p, winput[p][0])>>
      [] wpc[p][0] = "count" -> <<wresult[p][0]>>
      [] wpc[p][0] = "put" -> <<wresult[p][0]>>
      [] OTHER -> <<>>

OutputValues ==
    [k \in 1 .. Len(outputs) |-> outputs[k].output]

\* C2: with one instance and a target function f that never fails, the outputs
\* returned by get_output are f of the inputs in the order they were pushed:
\* what was returned, then what waits in the output queue, then what the worker
\* holds, then f of what waits in the input queue, is f of everything pushed
C2_Fifo ==
    (/\ instances["P1"] = 1
     /\ target_function["P1"] = "ok"
     /\ input_queue["P1"] # NoQueue
     /\ output_queues["P1"] # <<>>) =>
        /\ \A k \in 1 .. Len(outputs) : outputs[k].processor = "P1"
        /\ OutputValues \o queues[output_queues["P1"][1]] \o Pending("P1")
              \o MapSeq("P1", queues[input_queue["P1"]]) = MapSeq("P1", pushed)

\* two different inputs went through and came out in the order pushed
C2_Witness ==
    /\ instances["P1"] = 1
    /\ target_function["P1"] = "ok"
    /\ pushed = <<1, 2>>
    /\ outputs = <<Result("P1", TargetFunction("P1", 1)), Result("P1", TargetFunction("P1", 2))>>

\* C6: with a target function that raises on every input, has_output is never
\* true, no output queue ever holds an item and get_output never returned one,
\* no worker has exited, and the counters count every input handled: they add up
\* to the number pushed once every input has been dequeued and handled
C6_RaisingTarget ==
    (target_function["P1"] = "raise" /\ input_queue["P1"] # NoQueue) =>
        /\ ~has_output("P1")
        /\ \A k \in 1 .. Len(output_queues["P1"]) : queues[output_queues["P1"][k]] = <<>>
        /\ outputs = <<>>
        /\ \A i \in 0 .. (instances["P1"] - 1) : wpc["P1"][i] # "dead"
        /\ processes["P1"] # <<>> => Alive("P1") = 0 .. (instances["P1"] - 1)
        /\ Processed("P1") + Cardinality(InFlight("P1")) + Len(queues[input_queue["P1"]])
              = Len(pushed)
        /\ (queues[input_queue["P1"]] = <<>> /\ InFlight("P1") = {})
              => Processed("P1") = Len(pushed)

\* MaxPush inputs were pushed to a raising target and all of them were counted
C6_Witness ==
    /\ target_function["P1"] = "raise"
    /\ output_queues["P1"] # <<>>
    /\ Len(pushed) = MaxPush
    /\ Processed("P1") = MaxPush
    /\ \A i \in 0 .. (instances["P1"] - 1) : wpc["P1"][i] = "check"

\* ------------------------------------------------------ properties: shutdown
\* a step that is a call of shutdown("P1")
ShutdownCalled ==
    shutdown_calls'["P1"] # shutdown_calls["P1"]

\* a step in which a call of shutdown("P1") returns
ShutdownReturns ==
    shutdown_returns'["P1"] # shutdown_returns["P1"]

\* C7: a call of shutdown made after an earlier call has returned, or on a
\* processor that was never started, raises nothing, puts no signal on any signal
\* queue, changes nothing of the processor, its queues and workers, and returns
\* in the same step
C7_ShutdownIdempotent ==
    [][(ShutdownCalled /\ lifecycle["P1"] \in {"shutdown", "new"}) =>
          /\ ShutdownReturns
          /\ raised' = "none"
          /\ cpc' = "idle"
          /\ UNCHANGED <<procVars, queues, workerVars, containerVars, ret, pushed, outputs, saturated, waited, poll_from>>
      ]_vars

\* a second call of shutdown has returned on a processor whose two workers ran
\* and handled input
C7_Witness ==
    /\ shutdown_returns["P1"] = 2
    /\ shutdown_calls["P1"] = 2
    /\ lifecycle["P1"] = "shutdown"
    /\ instances["P1"] = 2
    /\ Processed("P1") >= 1

\* a step that puts a signal on the signal queue of instance i of P1
SignalPut(i) ==
    signal_queues'["P1"][i] > signal_queues["P1"][i]

\* no shutdown call returns while an instance is alive, and none raises
ReturnsWhenNoneAlive ==
    /\ [](lifecycle["P1"] = "shutdown" => Alive("P1") = {})
    /\ [][ShutdownReturns => (Alive("P1") = {} /\ Alive("P1")' = {} /\ raised' = "none")]_vars

\* C8 as stated: shutdown never raises and has returned only when no instance is
\* alive, and a signal is put only on the signal queue of an instance that is
\* alive at the moment of the put
C8_Original ==
    /\ ReturnsWhenNoneAlive
    /\ [][\A i \in Inst : SignalPut(i) => is_alive("P1", i)]_vars

\* C8: shutdown never raises and has returned only when no instance is alive; a
\* signal is put only by line 70, on the signal queue of the instance that the
\* is_alive test of line 69 has just found alive (the instance may exit between
\* the test and the put)
C8_ShutdownSafe ==
    /\ ReturnsWhenNoneAlive
    /\ [][\A i \in Inst : SignalPut(i) => (cpc = "sd_put" /\ cp = "P1" /\ ci = i)]_vars
    /\ [][(cpc # "sd_put" /\ cpc' = "sd_put") => is_alive(cp', ci')]_vars

\* shutdown has returned after a pass that was repeated: an instance was
\* signalled twice, read one signal and exited
C8_Witness ==
    /\ lifecycle["P1"] = "shutdown"
    /\ instances["P1"] = 2
    /\ Alive("P1") = {}
    /\ \E i \in Inst : signal_queues["P1"][i] >= 1
    /\ \A i \in 0 .. 1 : wpc["P1"][i] = "dead"

InShutdown ==
    cpc \in {"sd_for", "sd_put", "sd_join"}

\* the target function call of instance i of p never returns
Hung(p, i) ==
    /\ target_function[p] = "hang"
    /\ \/ wpc[p][i] = "invoke"
       \/ wpc[p][i] = "input" /\ run_input_queue[p] = NoQueue

\* a shutdown call has returned and every instance has exited
ShutdownDone ==
    cpc = "idle" /\ Alive("P1") = {}

\* a shutdown call is still repeating its passes on an instance inside a call
\* that never returns, and has signalled it MaxSignals times
ShutdownStuck ==
    InShutdown /\ \E i \in Inst : Hung("P1", i) /\ signal_queues["P1"][i] = MaxSignals

\* C9: when every worker and the caller keep running, a shutdown call either
\* returns with every instance exited, or goes on with its signal and wait
\* passes on an instance inside a call that never returns (here: up to
\* MaxSignals signals); the first happens when every target function call
\* returns, and no shutdown call returns while an instance is inside a call
\* that never returns
C9_ShutdownLiveness ==
    /\ InShutdown ~> (ShutdownDone \/ ShutdownStuck)
    /\ [](target_function["P1"] = "ok" => ~ShutdownStuck)
    /\ [][(\E i \in Inst : Hung("P1", i)) => ~ShutdownReturns]_vars

\* a shutdown call on two running workers with a returning target has returned
C9_Witness ==
    /\ target_function["P1"] = "ok"
    /\ instances["P1"] = 2
    /\ lifecycle["P1"] = "shutdown"
    /\ shutdown_calls["P1"] = 1
    /\ Alive("P1") = {}
    /\ Processed("P1") >= 1

\* ------------------------------------------------------ ProcessorChain
\* chain.py line 56: the test made on the pair (previous, processor); it compares
\* type(output model) and type(input model) of the previous processor
ChainTypesDiffer(previous, processor) ==
    TypeOf(output_model[previous]) # TypeOf(input_model[previous])

\* Processor.get_output_queue, lines 140-146 (more than one queue raises)
get_output_queue(p) ==
    IF output_queues[p] = <<>> THEN NoQueue ELSE output_queues[p][1]

\* ProcessorChain._build_processor_chain from index k on (1-based), iq being the
\* input queue references so far: the exception raised, if any, and the
\* references after the walk
RECURSIVE BuildChain(_, _)
BuildChain(k, iq) ==
    IF k > Len(chain) THEN [raised |-> "none", input_queue |-> iq]
    ELSE IF ChainTypesDiffer(chain[k - 1], chain[k]) \/ Len(output_queues[chain[k - 1]]) > 1
         THEN [raised |-> "ValueError", input_queue |-> iq]
         ELSE BuildChain(k + 1, [iq EXCEPT ![chain[k]] = get_output_queue(chain[k - 1])])

\* ProcessorChain.start, lines 41-43: the call, up to the end of the build
ChainStart ==
    /\ Idle
    /\ start_calls < MaxStartCalls
    /\ start_calls' = start_calls + 1
    /\ IF chain = <<>>
       THEN /\ raised' = "ValueError"
            /\ UNCHANGED <<input_queue, opc, oi>>
       ELSE LET b == BuildChain(2, input_queue)
            IN /\ input_queue' = b.input_queue
               /\ raised' = b.raised
               /\ IF b.raised = "none"
                  THEN opc' = "chain_start" /\ oi' = 1
                  ELSE UNCHANGED <<opc, oi>>
    /\ UNCHANGED <<input_model, output_model, instances, target_function, setup_function,
                   output_queues, processes, signal_queues, stats, queues,
                   workerVars, containerVars, cpc, cp, ci, ret,
                   pushed, outputs, shutdown_calls, shutdown_returns, lifecycle, saturated, waited, poll_from>>

\* ProcessorAt of a loop that walks the list from its end
ProcessorFromEnd(k) ==
    chain[Len(chain) + 1 - k]

\* line 44: the processor the k-th round of `for processor in self.processors`
\* handles
ProcessorAt(k) ==
    chain[k]

\* ProcessorChain.start, lines 44-45: the next processor.start()
ChainStartNext ==
    /\ opc = "chain_start"
    /\ cpc = "idle"
    /\ StartEffect(ProcessorAt(oi))
    /\ IF AlreadyStarted(ProcessorAt(oi)) \/ oi = Len(chain)
       THEN opc' = "none" /\ oi' = 0
       ELSE opc' = opc /\ oi' = oi + 1

\* ProcessorChain.push_input with an input of type t
ChainPushInput(t, v) ==
    /\ Idle
    /\ Len(pushed) < MaxPush
    /\ IF \/ chain = <<>>
          \/ t # input_model[chain[1]]
          \/ input_queue[chain[1]] = NoQueue
       THEN /\ raised' = "ValueError"
            /\ UNCHANGED <<queues, pushed>>
       ELSE /\ raised' = "none"
            /\ queues' = [queues EXCEPT ![input_queue[chain[1]]] = QueuePut(@, v)]
            /\ pushed' = Append(pushed, v)
    /\ UNCHANGED <<procVars, workerVars, containerVars,
                   cpc, cp, ci, ret, opc, oi, outputs, shutdown_calls, shutdown_returns,
                   start_calls, lifecycle, saturated, waited, poll_from>>

\* ChainTail of a chain that reads the output of its first processor
ChainHead ==
    chain[1]

\* chain.py line 32 / 35: processors[-1]
ChainTail ==
    chain[Len(chain)]

\* ChainGetOutput of a chain that asks every processor for output
ChainGetOutputAny ==
    \E p \in Range(chain) : get_output(p)

\* ProcessorChain.get_output
ChainGetOutput ==
    get_output(ChainTail)

\* ProcessorChain.has_output
ChainHasOutput ==
    has_output(ChainTail)

\* two processors, one instance each, in a chain; the first with or without an
\* input model, the second declaring the first's output model or another one
InitChain ==
    /\ \E im1 \in {"AddInputModel", NoModel}, om1 \in {"AddOutputModel", NoModel},
          im2 \in {"AddOutputModel", "SquareOutputModel"} :
          Constructed(<<"P1", "P2">>,
                      [p \in Procs |-> CASE p = "P1" -> im1 [] p = "P2" -> im2 [] OTHER -> NoModel],
                      [p \in Procs |-> CASE p = "P1" -> om1 [] p = "P2" -> "SquareOutputModel"
                                         [] OTHER -> NoModel],
                      [p \in Procs |-> IF p \in {"P1", "P2"} THEN 1 ELSE 0],
                      [p \in Procs |-> "ok"])
    /\ chain = <<"P1", "P2">>
    /\ graph_keys = <<>>
    /\ graph_children = [p \in Procs |-> <<>>]
    /\ current_terminal_processor_index = -1

NextChain ==
    \/ ChainStart
    \/ ChainStartNext
    \/ \E t \in {"AddInputModel", "AddOutputModel"} : ChainPushInput(t, NextInput)
    \/ ChainGetOutput
    \/ GetOutputScan
    \/ GetOutputGet
    \/ Workers("P1")
    \/ Workers("P2")

SpecChain ==
    InitChain /\ [][NextChain]_vars

\* the workers and the thread inside chain.start keep being scheduled
SpecChainFair ==
    /\ InitChain
    /\ [][NextChain]_vars
    /\ WF_vars(_run("P1", 0))
    /\ WF_vars(_run("P2", 0))
    /\ WF_vars(ChainStartNext)

\* ------------------------------------------------------ properties: chain
\* the chain P1, P2 has matching declared types and P1 takes input
ChainMatch ==
    /\ chain = <<"P1", "P2">>
    /\ input_model["P1"] # NoModel
    /\ output_model["P1"] # NoModel
    /\ output_model["P1"] = input_model["P2"]

\* the outputs of the chain that get_output can return or has returned
ChainDelivered ==
    Len(outputs) + Len(queues[output_queues["P2"][1]])

\* C3: in a chain of two single-instance processors A = P1 and B = P2 with
\* matching types, the outputs returned by chain.get_output are results of B,
\* and what was returned, what waits in B's output queue, what B holds, B of
\* what waits between A and B, B of what A holds and B(A(.)) of what waits in
\* A's input queue are, in this order, B(A(x)) of the inputs x in the order
\* pushed; once the chain is started every pushed input reaches B's output
\* queue
C3_ChainComposition ==
    /\ [](ChainMatch =>
            /\ \A k \in 1 .. Len(outputs) : outputs[k].processor = "P2"
            /\ OutputValues \o queues[output_queues["P2"][1]] \o Pending("P2")
                  \o MapSeq("P2", queues[output_queues["P1"][1]])
                  \o MapSeq("P2", Pending("P1"))
                  \o MapSeq("P2", MapSeq("P1", queues[input_queue["P1"]]))
                  = MapSeq("P2", MapSeq("P1", pushed)))
    /\ \A k \in 1 .. MaxPush :
          (ChainMatch /\ start_calls >= 1 /\ Len(pushed) >= k) ~> (ChainDelivered >= k)

\* two inputs went through both stages and came out in the order pushed
C3_Witness ==
    /\ ChainMatch
    /\ pushed = <<1, 2>>
    /\ outputs = <<Result("P2", TargetFunction("P2", TargetFunction("P1", 1))),
                   Result("P2", TargetFunction("P2", TargetFunction("P1", 2)))>>

\* some adjacent pair of the chain declares different output and input models
ChainMismatch ==
    \E k \in 1 .. (Len(chain) - 1) : output_model[chain[k]] # input_model[chain[k + 1]]

\* C10: when an adjacent pair of the chain declares different output and input
\* types, chain.start raises a configuration error, and no worker of any
\* processor of the chain is ever spawned and no item processed
C10_ChainStartRejectsMismatch ==
    /\ [][(start_calls' # start_calls /\ ChainMismatch) =>
             (raised' = "ValueError" /\ opc' = "none")]_vars
    /\ [](ChainMismatch =>
             \A p \in Procs : processes[p] = <<>> /\ Processed(p) = 0)

\* ------------------------------------------------------ ProcessorGraph
\* graph.py line 92: the test made on an edge; it compares type(output model of
\* the source) and type(input model of the target)
GraphTypesDiffer(source, target) ==
    TypeOf(output_model[source]) # TypeOf(input_model[target])

\* the (source, target) pairs in the order _build_processor_chain walks them
RECURSIVE EdgesFrom(_)
EdgesFrom(keys) ==
    IF keys = <<>> THEN <<>>
    ELSE [k \in 1 .. Len(graph_children[Head(keys)]) |->
              <<Head(keys), graph_children[Head(keys)][k]>>] \o EdgesFrom(Tail(keys))

\* ProcessorGraph._build_processor_chain over the edges left to walk: the
\* exception raised, if any, and the queues and references after the walk
RECURSIVE BuildGraph(_, _, _, _)
BuildGraph(edges, oq, iq, qs) ==
    IF edges = <<>> THEN [raised |-> "none", output_queues |-> oq, input_queue |-> iq, queues |-> qs]
    ELSE LET source == Head(edges)[1]
             target == Head(edges)[2]
         IN IF GraphTypesDiffer(source, target)
            THEN [raised |-> "ValueError", output_queues |-> oq, input_queue |-> iq, queues |-> qs]
            ELSE BuildGraph(Tail(edges),
                            [oq EXCEPT ![source] = Append(@, Len(qs) + 1)],
                            [iq EXCEPT ![target] = Len(qs) + 1],
                            NewQueue(qs))

\* Terminals of a graph that takes every key for a terminal processor
EveryKey ==
    graph_keys

\* ProcessorGraph._get_terminal_processors
Terminals ==
    SelectSeq(graph_keys, LAMBDA p : graph_children[p] = <<>>)

\* FirstProcessor of a graph whose entry is the key added last
LastProcessor ==
    graph_keys[Len(graph_keys)]

\* ProcessorGraph._get_first_processor
FirstProcessor ==
    graph_keys[1]

\* ProcessorGraph.start, lines 76-79: the call, up to the end of the build
GraphStart ==
    /\ Idle
    /\ start_calls < MaxStartCalls
    /\ start_calls' = start_calls + 1
    /\ IF graph_keys = <<>>
       THEN /\ raised' = "ValueError"
            /\ UNCHANGED <<input_queue, output_queues, queues, opc, oi>>
       ELSE LET b == BuildGraph(EdgesFrom(graph_keys), output_queues, input_queue, queues)
            IN /\ input_queue' = b.input_queue
               /\ output_queues' = b.output_queues
               /\ queues' = b.queues
               /\ raised' = b.raised
               /\ IF b.raised = "none"
                  THEN opc' = "graph_start" /\ oi' = 1
                  ELSE UNCHANGED <<opc, oi>>
    /\ UNCHANGED <<input_model, output_model, instances, target_function, setup_function,
                   processes, signal_queues, stats,
                   workerVars, containerVars, cpc, cp, ci, ret,
                   pushed, outputs, shutdown_calls, shutdown_returns, lifecycle, saturated, waited, poll_from>>

\* ProcessorGraph._start_all_processors: the next processor.start()
GraphStartNext ==
    /\ opc = "graph_start"
    /\ cpc = "idle"
    /\ StartEffect(graph_keys[oi])
    /\ UNCHANGED <<saturated, waited, poll_from>>
    /\ IF AlreadyStarted(graph_keys[oi]) \/ oi = Len(graph_keys)
       THEN opc' = "none" /\ oi' = 0
       ELSE opc' = opc /\ oi' = oi + 1

\* ProcessorGraph.push_input with an input of type t
GraphPushInput(t, v) ==
    /\ Idle
    /\ Len(pushed) < MaxPush
    /\ IF \/ graph_keys = <<>>
          \/ t # input_model[FirstProcessor]
          \/ input_queue[FirstProcessor] = NoQueue
       THEN /\ raised' = "ValueError"
            /\ UNCHANGED <<queues, pushed>>
       ELSE /\ raised' = "none"
            /\ queues' = [queues EXCEPT ![input_queue[FirstProcessor]] = QueuePut(@, v)]
            /\ pushed' = Append(pushed, v)
    /\ UNCHANGED <<procVars, workerVars, containerVars,
                   cpc, cp, ci, ret, opc, oi, outputs, shutdown_calls, shutdown_returns,
                   start_calls, lifecycle, saturated, waited, poll_from>>

\* ProcessorGraph.has_output
GraphHasOutput ==
    \E k \in 1 .. Len(Terminals) : has_output(Terminals[k])

\* ProcessorGraph.has_output called by the caller: True (1) or False (0)
GraphHasOutputCall ==
    /\ Idle
    /\ ret' = Value(IF GraphHasOutput THEN 1 ELSE 0)
    /\ raised' = "none"
    /\ UNCHANGED <<procVars, queues, workerVars, containerVars, cpc, cp, ci, opc, oi,
                   historyVars>>

\* NextTerminalIndex of a cursor that is never moved
SameTerminalIndex(c, n) ==
    IF c < 0 THEN 0 ELSE c

\* ProcessorGraph._get_next_terminal_processor, lines 68-70: the cursor is
\* incremented and wraps to 0 at the number of terminal processors
NextTerminalIndex(c, n) ==
    IF c + 1 >= n THEN 0 ELSE c + 1

\* the calls terminal processor p has waited through, this one included; what
\* lies beyond one call more than there are terminal processors is not told
\* apart
Waited(p) ==
    IF waited[p] > Len(Terminals) THEN waited[p] ELSE waited[p] + 1

\* Cursor of a get_output that begins every call before the first terminal
CursorReset ==
    IF oi = Len(Terminals) THEN -1 ELSE current_terminal_processor_index

\* line 68: the cursor kept from the call before
Cursor ==
    current_terminal_processor_index

\* Rounds of a loop that runs once more than there are terminal processors
OneRoundMore ==
    Len(Terminals) + 1

\* Rounds of a loop that tries one terminal processor only
OneRound ==
    IF Terminals = <<>> THEN 0 ELSE 1

\* line 61: range(len(self._get_terminal_processors())), the rounds of the loop
Rounds ==
    Len(Terminals)

\* ProcessorGraph.get_output, line 61: the call; the loop runs once per
\* terminal processor there is now
GraphGetOutput ==
    /\ Idle
    /\ saturated' = (saturated /\ \A k \in 1 .. Len(Terminals) : has_output(Terminals[k]))
    /\ waited' = [p \in Procs |-> IF p \in Range(Terminals) /\ has_output(p)
                                  THEN Waited(p) ELSE 0]
    /\ IF Terminals = <<>>
       THEN /\ ret' = NoResult
            /\ UNCHANGED <<opc, oi, poll_from>>
       ELSE /\ opc' = "graph_get"
            /\ oi' = Rounds
            /\ poll_from' = NextTerminalIndex(Cursor, Len(Terminals))
            /\ UNCHANGED ret
    /\ raised' = "none"
    /\ UNCHANGED <<procVars, queues, workerVars, containerVars, cpc, cp, ci,
                   pushed, outputs, shutdown_calls, shutdown_returns, start_calls, lifecycle>>

\* ProcessorGraph.get_output, lines 62-64: one round of the loop: the cursor
\* moves on, and the terminal processor it names is asked for its output when
\* it has some
GraphGetOutputNext ==
    /\ opc = "graph_get"
    /\ cpc = "idle"
    /\ LET c == NextTerminalIndex(Cursor, Len(Terminals))
           t == Terminals[c + 1]
       IN /\ current_terminal_processor_index' = c
          /\ IF has_output(t)
             THEN /\ GetOutputCall(t)
                  /\ opc' = "none"
                  /\ oi' = 0
             ELSE /\ IF oi = 1
                     THEN opc' = "none" /\ oi' = 0 /\ ret' = NoResult
                     ELSE opc' = opc /\ oi' = oi - 1 /\ ret' = ret
                  /\ UNCHANGED <<procVars, queues, workerVars, chain, graph_keys, graph_children,
                                 cpc, cp, ci, raised,
                                 pushed, outputs, shutdown_calls, shutdown_returns,
                                 start_calls, lifecycle>>
    /\ poll_from' = (IF opc' = "graph_get" THEN poll_from ELSE None)
    /\ UNCHANGED <<saturated, waited>>

\* the graph of the tests: root P1 with the two terminal children P2 and P3,
\* one instance each, types matching along both edges; the root takes input, or
\* is a source stage
InitGraph ==
    /\ \E im1 \in {"AddInputModel", NoModel} :
       Constructed(<<"P1", "P2", "P3">>,
                   [p \in Procs |-> IF p = "P1" THEN im1 ELSE "AddOutputModel"],
                   [p \in Procs |-> CASE p = "P1" -> "AddOutputModel"
                                      [] p = "P2" -> "SquareOutputModel"
                                      [] OTHER -> "SquareRootOutputModel"],
                   [p \in Procs |-> 1],
                   [p \in Procs |-> "ok"])
    /\ chain = <<>>
    /\ graph_keys = <<"P1", "P2", "P3">>
    /\ graph_children = [p \in Procs |-> IF p = "P1" THEN <<"P2", "P3">> ELSE <<>>]
    /\ current_terminal_processor_index = -1

NextGraph ==
    \/ GraphStart
    \/ GraphStartNext
    \/ \E t \in {"AddInputModel", "AddOutputModel"} : GraphPushInput(t, NextInput)
    \/ GraphGetOutput
    \/ GraphGetOutputNext
    \/ GetOutputScan
    \/ GetOutputGet
    \/ Workers("P1")
    \/ Workers("P2")
    \/ Workers("P3")

SpecGraph ==
    InitGraph /\ [][NextGraph]_vars

\* the queue a terminal processor's worker reads, or will read once spawned
EdgeQueue(t) ==
    IF processes[t] # <<>> THEN run_input_queue[t] ELSE input_queue[t]

\* the result the single worker of p holds and has still to put on queue q
PendingFor(p, q) ==
    IF \/ wpc[p][0] = "count"
       \/ /\ wpc[p][0] = "put"
          /\ \E j \in wk[p][0] .. Len(run_output_queues[p]) : run_output_queues[p][j] = q
    THEN <<wresult[p][0]>>
    ELSE <<>>

\* the outputs graph.get_output has returned with processor field t
OutputsOf(t) ==
    LET mine == SelectSeq(outputs, LAMBDA r : r.processor = t)
    IN [k \in 1 .. Len(mine) |-> mine[k].output]

\* nothing is left in any queue or worker of the graph
GraphDrained ==
    /\ \A q \in 1 .. Len(queues) : q # output_queues["P1"][1] => queues[q] = <<>>
    /\ \A p \in Procs : wpc[p][0] \in {"check", "input"}

\* C4: in a graph with a root P1 that takes input and the terminal children
\* A = P2 and B = P3,
\* every Result returned by graph.get_output carries the name of A or of B, and
\* for each terminal t what was returned for t, what waits in t's output queue,
\* what t holds, t of what waits on the edge to t, t of what the root has still
\* to put on that edge and t(root(.)) of what waits in the root's input queue
\* are, in this order, t(root(x)) of the inputs x pushed; so once everything is
\* drained there are k Results of A and k of B, 2k in all, for k inputs
C4_GraphBroadcast ==
    input_queue["P1"] # NoQueue =>
        /\ \A j \in 1 .. Len(outputs) : outputs[j].processor \in {"P2", "P3"}
        /\ \A t \in {"P2", "P3"} :
              OutputsOf(t) \o queues[output_queues[t][1]] \o Pending(t)
                 \o MapSeq(t, queues[EdgeQueue(t)])
                 \o MapSeq(t, PendingFor("P1", EdgeQueue(t)))
                 \o MapSeq(t, MapSeq("P1", queues[input_queue["P1"]]))
              = MapSeq(t, MapSeq("P1", pushed))
        /\ GraphDrained =>
              /\ Len(OutputsOf("P2")) = Len(pushed)
              /\ Len(OutputsOf("P3")) = Len(pushed)
              /\ Len(outputs) = 2 * Len(pushed)

C4_Witness ==
    /\ input_queue["P1"] # NoQueue
    /\ GraphDrained
    /\ Len(pushed) = MaxPush
    /\ Len(outputs) = 2 * MaxPush
    /\ Len(OutputsOf("P2")) = MaxPush
    /\ Len(OutputsOf("P3")) = MaxPush

\* C5: as long as every graph.get_output call so far found output at both
\* terminal processors, each call returns from the first terminal it tries, and
\* the Results returned alternate, starting with the terminal added first:
\* the 1st, 3rd, ... come from P2 and the 2nd, 4th, ... from P3
C5_RoundRobin ==
    saturated =>
        /\ opc = "graph_get" => oi = Len(Terminals)
        /\ \A j \in 1 .. Len(outputs) :
              outputs[j].processor = Terminals[((j - 1) % Len(Terminals)) + 1]

C5_Witness ==
    /\ saturated
    /\ Idle
    /\ Len(outputs) >= 3
    /\ outputs[1].processor = "P2"
    /\ outputs[2].processor = "P3"
    /\ outputs[3].processor = "P2"

\* ------------------------------------------------------ ProcessorGraph: build
\* add_processor called without previous_processor
NoProcessor == "none"

\* the number of edges recorded in the graph
RECURSIVE EdgeCount(_)
EdgeCount(keys) ==
    IF keys = <<>> THEN 0
    ELSE Len(graph_children[Head(keys)]) + EdgeCount(Tail(keys))

\* RootCheck of an add_processor that accepts a second processor without parent
RootCheckSkipped(keys) ==
    FALSE

\* graph.py lines 27-29: without previous_processor a non-empty graph raises
RootCheck(keys) ==
    keys # <<>>

\* ChildCheck of an add_processor that links the same child twice
ChildCheckSkipped(new, previous) ==
    FALSE

\* graph.py lines 35-36: new_processor is already linked to previous_processor
ChildCheck(new, previous) ==
    new \in Range(graph_children[previous])

\* graph.py lines 39-40: new_processor becomes a key, with an empty child list,
\* if it is not one already
Registered(keys, new) ==
    IF new \in Range(keys) THEN keys ELSE Append(keys, new)

\* ProcessorGraph.add_processor(new, previous), previous = NoProcessor when the
\* argument is left out; at most MaxEdges edges are recorded
AddProcessor(new, previous) ==
    /\ Idle
    /\ EdgeCount(graph_keys) < MaxEdges
    /\ IF previous = NoProcessor
       THEN IF RootCheck(graph_keys)
            THEN /\ raised' = "ValueError"
                 /\ UNCHANGED <<graph_keys, graph_children>>
            ELSE /\ raised' = "none"
                 /\ graph_keys' = Registered(graph_keys, new)
                 /\ UNCHANGED graph_children
       ELSE IF previous \notin Range(graph_keys) \/ ChildCheck(new, previous)
            THEN /\ raised' = "ValueError"
                 /\ UNCHANGED <<graph_keys, graph_children>>
            ELSE /\ raised' = "none"
                 /\ graph_children' = [graph_children EXCEPT ![previous] = Append(@, new)]
                 /\ graph_keys' = Registered(graph_keys, new)
    /\ UNCHANGED <<procVars, queues, workerVars, chain, current_terminal_processor_index,
                   cpc, cp, ci, ret, opc, oi, historyVars>>

\* three processors constructed and an empty graph; P1 maps AddInputModel to
\* AddOutputModel, P2 declares that output model as its input, another model or
\* none, P3 declares it
InitGraphBuild ==
    /\ \E im2 \in {"AddOutputModel", "SquareOutputModel", NoModel} :
       Constructed(<<"P1", "P2", "P3">>,
                   [p \in Procs |-> CASE p = "P1" -> "AddInputModel"
                                      [] p = "P2" -> im2
                                      [] OTHER -> "AddOutputModel"],
                   [p \in Procs |-> CASE p = "P1" -> "AddOutputModel"
                                      [] p = "P2" -> "SquareOutputModel"
                                      [] OTHER -> "SquareRootOutputModel"],
                   [p \in Procs |-> 1],
                   [p \in Procs |-> "ok"])
    /\ chain = <<>>
    /\ graph_keys = <<>>
    /\ graph_children = [p \in Procs |-> <<>>]
    /\ current_terminal_processor_index = -1

\* building and starting a graph: add_processor and start; what the spawned
\* workers do is the subject of SpecGraph
NextGraphBuild ==
    \/ \E new \in Procs, previous \in Procs \cup {NoProcessor} : AddProcessor(new, previous)
    \/ GraphStart
    \/ GraphStartNext

SpecGraphBuild ==
    InitGraphBuild /\ [][NextGraphBuild]_vars

\* some edge of the graph joins a parent and a child whose declared output and
\* input types differ
GraphMismatch ==
    \E s \in Range(graph_keys) : \E t \in Range(graph_children[s]) :
       output_model[s] # input_model[t]

\* C11: a call of graph.start on a graph with an edge whose parent's declared
\* output type differs from the child's declared input type raises a
\* configuration error and spawns no worker, neither in the call nor after it
C11_GraphStartRejectsMismatch ==
    [][(start_calls' # start_calls /\ GraphMismatch) =>
          (raised' = "ValueError" /\ opc' = "none" /\ processes' = processes)]_vars

\* ------------------------------------------------------ properties: Processor
\* the workers of P1 were spawned in this step
Spawned ==
    processes["P1"] = <<>> /\ processes'["P1"] # <<>>

\* C12: the step that spawns the workers of a processor creates exactly
\* `instances` of them, each at the top of its loop and all handed the one input
\* queue and the output queues of the processor; a start call on a processor
\* that has workers, alive or exited, raises RuntimeError and changes nothing
\* of the workers; the list of workers never changes again, an exited worker
\* stays exited, and no worker exists beyond the first `instances`
C12_StartOnce ==
    /\ [][Spawned =>
            /\ Len(processes'["P1"]) = instances["P1"]
            /\ \A i \in 0 .. (instances["P1"] - 1) : wpc'["P1"][i] = "check"
            /\ run_input_queue'["P1"] = input_queue["P1"]
            /\ run_output_queues'["P1"] = output_queues["P1"]]_vars
    /\ [][(start("P1") /\ processes["P1"] # <<>>) =>
            /\ raised' = "RuntimeError"
            /\ UNCHANGED <<procVars, queues, workerVars>>]_vars
    /\ [][processes["P1"] # <<>> =>
            /\ processes'["P1"] = processes["P1"]
            /\ run_input_queue'["P1"] = run_input_queue["P1"]
            /\ run_output_queues'["P1"] = run_output_queues["P1"]
            /\ \A i \in Inst : wpc["P1"][i] = "dead" => wpc'["P1"][i] = "dead"]_vars
    /\ [](\A i \in Inst : i >= instances["P1"] => wpc["P1"][i] = "none")
    /\ [](Len(processes["P1"]) <= instances["P1"])

\* start was called again after shutdown had returned on two exited workers,
\* and raised
C12_Witness ==
    /\ instances["P1"] = 2
    /\ lifecycle["P1"] = "shutdown"
    /\ raised = "RuntimeError"
    /\ \A i \in 0 .. 1 : wpc["P1"][i] = "dead"

\* C13: a push_input call on a processor without input model or without input
\* queue raises ValueError and changes no queue, nothing of the processor and
\* nothing of its workers; any other push_input call raises nothing, appends
\* the value at the tail of the processor's input queue, whatever that queue
\* holds, and changes no other queue, nothing else of the processor and nothing
\* of its workers
C13_PushInput ==
    /\ [][(push_input("P1", NextInput)
             /\ (input_model["P1"] = NoModel \/ input_queue["P1"] = NoQueue)) =>
            /\ raised' = "ValueError"
            /\ UNCHANGED <<procVars, queues, workerVars, pushed, outputs>>]_vars
    /\ [][(push_input("P1", NextInput)
             /\ input_model["P1"] # NoModel /\ input_queue["P1"] # NoQueue) =>
            /\ raised' = "none"
            /\ pushed' = Append(pushed, NextInput)]_vars
    /\ [][pushed' # pushed =>
            /\ input_model["P1"] # NoModel
            /\ input_queue["P1"] # NoQueue
            /\ queues' = [queues EXCEPT ![input_queue["P1"]] = Append(@, NextInput)]
            /\ UNCHANGED <<procVars, workerVars, outputs, ret>>]_vars
    /\ [][(raised' = "ValueError" /\ raised # "ValueError") =>
            UNCHANGED <<procVars, queues, workerVars, pushed, outputs>>]_vars

\* a second value was appended behind one still waiting in the input queue
C13_Witness ==
    /\ input_model["P1"] # NoModel
    /\ raised = "none"
    /\ pushed = <<1, 2>>
    /\ queues[input_queue["P1"]] = <<1, 2>>

\* ------------------------------------------------------ Processor: output queues
\* Processor.add_output_queue(queue), lines 151-154, queue being a Queue that is
\* in the list already or a new one; at most MaxOutputQueues are attached
add_output_queue(p, q) ==
    /\ Idle
    /\ Len(output_queues[p]) < MaxOutputQueues
    /\ IF q \in Range(output_queues[p])
       THEN /\ raised' = "ValueError"
            /\ UNCHANGED <<output_queues, queues>>
       ELSE /\ raised' = "none"
            /\ output_queues' = [output_queues EXCEPT ![p] = Append(@, q)]
            /\ queues' = IF q > Len(queues) THEN NewQueue(queues) ELSE queues
    /\ UNCHANGED <<input_model, output_model, instances, target_function, setup_function,
                   input_queue, processes, signal_queues, stats,
                   workerVars, containerVars, cpc, cp, ci, ret, opc, oi, historyVars>>

\* the caller attaches output queues to a processor it has not started yet
AttachOutputQueue ==
    /\ processes["P1"] = <<>>
    /\ \E q \in Range(output_queues["P1"]) \cup {Len(queues) + 1} : add_output_queue("P1", q)

\* one single-instance processor, with or without input and output model
InitOutputs ==
    \E im \in {"AddInputModel", NoModel}, om \in {"AddOutputModel", NoModel} :
       OneProcessor(im, om, 1, "ok")

\* one single-instance processor whose caller attaches output queues, starts
\* it, pushes input and is the only reader of its output queues
NextOutputs ==
    \/ AttachOutputQueue
    \/ start("P1")
    \/ push_input("P1", NextInput)
    \/ HasOutputCall("P1")
    \/ get_output("P1")
    \/ GetOutputScan
    \/ GetOutputGet
    \/ Workers("P1")

SpecOutputs ==
    InitOutputs /\ [][NextOutputs]_vars

\* one processor with any number of instances whose caller attaches output
\* queues, starts it and pushes input; nothing reads the output queues
NextBroadcast ==
    \/ AttachOutputQueue
    \/ start("P1")
    \/ push_input("P1", NextInput)
    \/ Workers("P1")

SpecBroadcast ==
    InitProcessor /\ [][NextBroadcast]_vars

\* the output queue of P1 the scan of get_output is at
ScannedQueue ==
    queues[output_queues["P1"][ci]]

\* C14: with the caller as only reader, a get_output call on a processor
\* without output queue or with all output queues empty returns None and
\* changes no queue; any other call scans the output queues in the order they
\* were attached, from the first on, goes past a queue only when it is empty,
\* always finds a queue that is not empty, removes the head of that queue and
\* nothing else, and returns it as Result(processor = P1, output = head); an
\* output queue loses an item in no other step
C14_GetOutput ==
    /\ [][(get_output("P1") /\ ~has_output("P1")) =>
            /\ ret' = NoResult
            /\ cpc' = "idle"
            /\ UNCHANGED <<procVars, queues, outputs>>]_vars
    /\ [][(get_output("P1") /\ has_output("P1")) =>
            /\ cpc' = "get_scan"
            /\ ci' = 1
            /\ UNCHANGED <<procVars, queues, outputs>>]_vars
    /\ [][(cpc = "get_scan" /\ ci' # ci) =>
            /\ ci' = ci + 1
            /\ ScannedQueue = <<>>
            /\ UNCHANGED <<procVars, queues, outputs>>]_vars
    /\ [](cpc \in {"get_scan", "get_get"} =>
            \E k \in ci .. Len(output_queues["P1"]) : queues[output_queues["P1"][k]] # <<>>)
    /\ [](cpc = "get_get" => ScannedQueue # <<>>)
    /\ [][outputs' # outputs =>
            /\ cpc = "get_get"
            /\ cpc' = "idle"
            /\ ret' = Result("P1", Head(ScannedQueue))
            /\ outputs' = Append(outputs, Result("P1", Head(ScannedQueue)))
            /\ queues' = [queues EXCEPT ![output_queues["P1"][ci]] = Tail(@)]
            /\ UNCHANGED procVars]_vars
    /\ [][\A k \in 1 .. Len(output_queues["P1"]) :
            Len(queues'[output_queues["P1"][k]]) < Len(queues[output_queues["P1"][k]])
               => outputs' # outputs]_vars

\* with two output queues attached, the one result of the one input was
\* returned twice: from the first queue, then, the first being empty, from the
\* second
C14_Witness ==
    /\ Len(output_queues["P1"]) = 2
    /\ pushed = <<1>>
    /\ cpc = "idle"
    /\ outputs = <<Result("P1", TargetFunction("P1", 1)), Result("P1", TargetFunction("P1", 1))>>
    /\ ret = Result("P1", TargetFunction("P1", 1))

\* C15: a has_output call returns a true value exactly when some output queue
\* of the processor is not empty, a false value for a processor without output
\* queue, and changes no queue and nothing else of the processor
C15_HasOutput ==
    [][HasOutputCall("P1") =>
         /\ Truthy(ret'.output) <=>
               \E q \in Range(output_queues["P1"]) : queues[q] # <<>>
         /\ output_queues["P1"] = <<>> => ~Truthy(ret'.output)
         /\ UNCHANGED <<procVars, queues, workerVars, outputs>>]_vars

\* has_output returned True with the first of two output queues empty and the
\* second one not
C15_Witness ==
    /\ Len(output_queues["P1"]) = 2
    /\ queues[output_queues["P1"][1]] = <<>>
    /\ queues[output_queues["P1"][2]] # <<>>
    /\ ret = Value(1)

\* the k-th output queue of P1
OutputQueue(k) ==
    queues[output_queues["P1"][k]]

\* how often v is in sequence s
Count(s, v) ==
    Cardinality({j \in 1 .. Len(s) : s[j] = v})

\* the workers of P1 that hold result v and have not come to line 217 yet
Counting(v) ==
    Cardinality({i \in Inst : wpc["P1"][i] = "count" /\ wresult["P1"][i] = v})

\* the workers of P1 in the loop of line 218 that have yet to put result v on
\* the k-th output queue
Putting(k, v) ==
    Cardinality({i \in Inst : wpc["P1"][i] = "put" /\ wresult["P1"][i] = v /\ wk["P1"][i] <= k})

\* the inputs of P1 taken out of its input queue so far
Dequeued ==
    IF input_queue["P1"] = NoQueue THEN <<>>
    ELSE SubSeq(pushed, 1, Len(pushed) - Len(queues[input_queue["P1"]]))

\* the values a target invocation of P1 can return
ResultValues ==
    {TargetFunction("P1", x) : x \in 0 .. MaxPush} \cup {0, None}

\* C16: nothing reading the output queues of P1, each output queue receives an
\* item only from a worker that holds a true result and is in the loop over the
\* output queues, and then exactly that result at its tail; the worker goes
\* through the queues one by one, so that every output queue holds every true
\* result of every instance exactly once, up to the puts a worker is in the
\* middle of; with an input model every invocation on a dequeued input
\* accounts for exactly one item per output queue; a target that raises or
\* returns a false value puts nothing on any output queue
C16_Broadcast ==
    /\ [][\A k \in 1 .. Len(output_queues["P1"]) :
            OutputQueue(k)' # OutputQueue(k) =>
               \E i \in Inst :
                  /\ wpc["P1"][i] = "put"
                  /\ wk["P1"][i] = k
                  /\ Truthy(wresult["P1"][i])
                  /\ OutputQueue(k)' = Append(OutputQueue(k), wresult["P1"][i])
                  /\ \A j \in 1 .. Len(output_queues["P1"]) :
                        j # k => OutputQueue(j)' = OutputQueue(j)
                  /\ IF k < Len(output_queues["P1"])
                     THEN wpc'["P1"][i] = "put" /\ wk'["P1"][i] = k + 1
                          /\ wresult'["P1"][i] = wresult["P1"][i]
                     ELSE wpc'["P1"][i] = "check"]_vars
    /\ [](\A k, j \in 1 .. Len(output_queues["P1"]) : \A v \in ResultValues :
            Count(OutputQueue(k), v) + Putting(k, v)
               = Count(OutputQueue(j), v) + Putting(j, v))
    /\ [](\A k \in 1 .. Len(output_queues["P1"]) : \A v \in ResultValues :
            (input_queue["P1"] # NoQueue /\ target_function["P1"] = "ok") =>
               Count(OutputQueue(k), v) + Putting(k, v) + Counting(v)
                  = Count(MapSeq("P1", Dequeued), v))
    /\ [](\A k \in 1 .. Len(output_queues["P1"]) :
            target_function["P1"] \in {"raise", "falsy"} => OutputQueue(k) = <<>>)
    /\ [](\A k \in 1 .. Len(output_queues["P1"]) : \A j \in 1 .. Len(OutputQueue(k)) :
            Truthy(OutputQueue(k)[j]))

\* two instances, two output queues, two inputs: both results are on both
\* queues, in a different order
C16_Witness ==
    /\ instances["P1"] = 2
    /\ Len(output_queues["P1"]) = 2
    /\ OutputQueue(1) = <<TargetFunction("P1", 1), TargetFunction("P1", 2)>>
    /\ OutputQueue(2) = <<TargetFunction("P1", 2), TargetFunction("P1", 1)>>

\* what worker i of P1 holds: its position, locals and counter
WorkerState(i) ==
    <<wpc["P1"][i], winput["P1"][i], wresult["P1"][i], wk["P1"][i], stats["P1"][i]>>

\* the input queue the workers of P1 read
SharedInput ==
    queues[run_input_queue["P1"]]

\* the workers of P1 between the call of the target function and the counter
\* update
InvokedUncounted ==
    Cardinality({i \in Inst : wpc["P1"][i] = "count"})

\* C17: the workers of a started processor with an input queue all read the
\* one queue handed to them at start; whenever that queue loses an item it
\* loses exactly its head, exactly one worker, which was waiting for input,
\* has been handed that item and has called the target function on it, and
\* no other worker has changed; the queue always holds the pushed items not
\* handed out yet, in order, and the invocations made are as many as the items
\* handed out
C17_CompetingConsumers ==
    /\ [](processes["P1"] # <<>> => run_input_queue["P1"] = input_queue["P1"])
    /\ [][(run_input_queue["P1"] # NoQueue /\ Len(SharedInput') < Len(SharedInput)) =>
            /\ SharedInput' = Tail(SharedInput)
            /\ \E i \in Inst :
                  /\ i < instances["P1"]
                  /\ wpc["P1"][i] = "input"
                  /\ wpc'["P1"][i] = "count"
                  /\ wresult'["P1"][i] = Invoke("P1", Head(SharedInput))
                  /\ \A j \in Inst : j # i => WorkerState(j)' = WorkerState(j)]_vars
    /\ [](input_queue["P1"] # NoQueue =>
            /\ Dequeued \o queues[input_queue["P1"]] = pushed
            /\ SumTo(stats["P1"], MaxInstances) + InvokedUncounted = Len(Dequeued))

\* two instances, two inputs: each instance has been handed one of them
C17_Witness ==
    /\ instances["P1"] = 2
    /\ target_function["P1"] = "ok"
    /\ pushed = <<1, 2>>
    /\ queues[input_queue["P1"]] = <<>>
    /\ \E i, j \in Inst :
          /\ i # j
          /\ wpc["P1"][i] = "count" /\ wresult["P1"][i] = TargetFunction("P1", 1)
          /\ wpc["P1"][j] = "count" /\ wresult["P1"][j] = TargetFunction("P1", 2)

\* ------------------------------------------------------ properties: ProcessorGraph
\* the graph add_processor(P1); add_processor(P2, P1); add_processor(P3, P1);
\* add_processor(P3, P2) has built: P3 is a child of P1 and of P2; P1, P2 and
\* P3 all pass on the one type P2 and P3 declare as input; the root takes
\* input, or is a source stage
InitGraphDag ==
    /\ \E im1 \in {"AddInputModel", NoModel} :
       Constructed(<<"P1", "P2", "P3">>,
                   [p \in Procs |-> IF p = "P1" THEN im1 ELSE "AddOutputModel"],
                   [p \in Procs |-> "AddOutputModel"],
                   [p \in Procs |-> 1],
                   [p \in Procs |-> "ok"])
    /\ chain = <<>>
    /\ graph_keys = <<"P1", "P2", "P3">>
    /\ graph_children = [p \in Procs |-> CASE p = "P1" -> <<"P2", "P3">>
                                           [] p = "P2" -> <<"P3">>
                                           [] OTHER -> <<>>]
    /\ current_terminal_processor_index = -1

SpecGraphDag ==
    InitGraphDag /\ [][NextGraph]_vars

\* C18: in a started graph, for every recorded edge (parent, child) the queue
\* the child's workers read is one of the queues the parent's workers put
\* their results on
C18_EdgeDelivers ==
    \A s \in Range(graph_keys) : \A t \in Range(graph_children[s]) :
       (processes[s] # <<>> /\ processes[t] # <<>>) =>
          run_input_queue[t] \in Range(run_output_queues[s])

\* the processors that are a child of some key of the graph
Children ==
    UNION {Range(graph_children[s]) : s \in Range(graph_keys)}

\* C19: add_processor(new) without previous processor on an empty graph makes
\* new the only key, with no child, and does not raise; on a graph that is not
\* empty it raises and changes neither keys nor child lists; the graph gets its
\* first key in no other way, the first key (the processor push_input feeds)
\* stays the first key, and every later key has been added as a child of a key
C19_SingleRoot ==
    /\ [][\A new \in Procs : AddProcessor(new, NoProcessor) =>
            IF graph_keys = <<>>
            THEN /\ raised' = "none"
                 /\ graph_keys' = <<new>>
                 /\ FirstProcessor' = new
                 /\ UNCHANGED graph_children
            ELSE /\ raised' = "ValueError"
                 /\ UNCHANGED <<graph_keys, graph_children>>]_vars
    /\ [][(graph_keys = <<>> /\ graph_keys' # <<>>) =>
            \E new \in Procs : AddProcessor(new, NoProcessor) /\ graph_children' = graph_children]_vars
    /\ [][graph_keys # <<>> =>
            /\ Len(graph_keys') >= Len(graph_keys)
            /\ SubSeq(graph_keys', 1, Len(graph_keys)) = graph_keys
            /\ FirstProcessor' = FirstProcessor]_vars
    /\ [](\A k \in 2 .. Len(graph_keys) : graph_keys[k] \in Children)

\* a graph of P1 and its child P2 on which an add_processor call has just been
\* rejected
C19_Witness ==
    /\ graph_keys = <<"P1", "P2">>
    /\ graph_children["P1"] = <<"P2">>
    /\ graph_children["P2"] = <<>>
    /\ raised = "ValueError"
    /\ start_calls = 0

\* sequence s names no processor twice
NoDuplicate(s) ==
    \A j, k \in 1 .. Len(s) : s[j] = s[k] => j = k

\* C20: add_processor(new, previous) raises and changes neither keys nor child
\* lists when previous is not a key or new is already a child of previous;
\* otherwise it does not raise, appends new at the end of previous' child list,
\* appends new to the keys, with no child, exactly when new was not a key, and
\* changes no other child list; so no child list names a processor twice, every
\* child is a key, and no key is there twice
C20_AddEdge ==
    /\ [][\A new \in Procs, previous \in Procs : AddProcessor(new, previous) =>
            IF previous \notin Range(graph_keys) \/ new \in Range(graph_children[previous])
            THEN /\ raised' = "ValueError"
                 /\ UNCHANGED <<graph_keys, graph_children>>
            ELSE /\ raised' = "none"
                 /\ graph_children'[previous] = Append(graph_children[previous], new)
                 /\ \A s \in Procs : s # previous => graph_children'[s] = graph_children[s]
                 /\ IF new \in Range(graph_keys)
                    THEN graph_keys' = graph_keys
                    ELSE /\ graph_keys' = Append(graph_keys, new)
                         /\ new # previous => graph_children'[new] = <<>>]_vars
    /\ [](\A s \in Procs : NoDuplicate(graph_children[s]))
    /\ [](NoDuplicate(graph_keys))
    /\ [](Children \subseteq Range(graph_keys))
    /\ [](\A s \in Procs : s \notin Range(graph_keys) => graph_children[s] = <<>>)

\* P2 and then P3 have been added as children of P1, and an add_processor call
\* has just been rejected
C20_Witness ==
    /\ graph_keys = <<"P1", "P2", "P3">>
    /\ graph_children["P1"] = <<"P2", "P3">>
    /\ graph_children["P2"] = <<>>
    /\ graph_children["P3"] = <<>>
    /\ raised = "ValueError"
    /\ start_calls = 0

\* the processors reached from p along at most n parent-to-child edges, n >= 1
RECURSIVE ReachedFrom(_, _)
ReachedFrom(p, n) ==
    IF n = 1 THEN Range(graph_children[p])
    ELSE LET near == ReachedFrom(p, n - 1)
         IN near \cup UNION {Range(graph_children[s]) : s \in near}

\* C21: after any sequence of add_processor calls no processor is reached from
\* itself along parent-to-child edges
C21_Acyclic ==
    \A p \in Procs : p \notin ReachedFrom(p, Cardinality(Procs))

\* ------------------------------------------------------ containers: push_input
\* ProcessorChain.add_processor: the processor is appended, whatever the chain
\* holds; at most MaxChainLen processors are added
ChainAddProcessor(p) ==
    /\ Idle
    /\ Len(chain) < MaxChainLen
    /\ chain' = Append(chain, p)
    /\ raised' = "none"
    /\ UNCHANGED <<procVars, queues, workerVars, graph_keys, graph_children,
                   current_terminal_processor_index, cpc, cp, ci, ret, opc, oi, historyVars>>

\* the graphs of the specification of push_input: none, the tree of
\* add_processor(P1), (P2, P1), (P3, P1), and the pair of add_processor(P2),
\* (P1, P2)
GraphChoices ==
    {[keys |-> <<>>, children |-> [p \in Procs |-> <<>>]],
     [keys |-> <<"P1", "P2", "P3">>,
      children |-> [p \in Procs |-> IF p = "P1" THEN <<"P2", "P3">> ELSE <<>>]],
     [keys |-> <<"P2", "P1">>,
      children |-> [p \in Procs |-> IF p = "P2" THEN <<"P1">> ELSE <<>>]]}

\* three processors constructed, P1 with or without input model, P2 and P3
\* taking AddOutputModel; an empty chain, and a graph that is empty or built
InitPushInput ==
    /\ \E im1 \in {"AddInputModel", NoModel} :
       Constructed(<<"P1", "P2", "P3">>,
                   [p \in Procs |-> IF p = "P1" THEN im1 ELSE "AddOutputModel"],
                   [p \in Procs |-> "AddOutputModel"],
                   [p \in Procs |-> 1],
                   [p \in Procs |-> "ok"])
    /\ chain = <<>>
    /\ \E g \in GraphChoices : graph_keys = g.keys /\ graph_children = g.children
    /\ current_terminal_processor_index = -1

\* the types of the values the caller pushes
InputTypes ==
    {"AddInputModel", "AddOutputModel", "SquareOutputModel"}

\* a caller that fills a chain and pushes input into the chain and the graph
NextPushInput ==
    \/ \E p \in Procs : ChainAddProcessor(p)
    \/ \E t \in InputTypes : ChainPushInput(t, NextInput)
    \/ \E t \in InputTypes : GraphPushInput(t, NextInput)

SpecPushInput ==
    InitPushInput /\ [][NextPushInput]_vars

\* C22: push_input of a chain (of a graph) with a value of type t raises and
\* changes no queue when the chain (the graph) is empty or t is not the declared
\* input type of the first processor of the chain (the first key of the graph);
\* otherwise it does not raise, appends the value to the input queue of that
\* processor and changes no other queue
C22_ContainerPushInput ==
    /\ [][\A t \in InputTypes : ChainPushInput(t, NextInput) =>
            IF chain = <<>> \/ t # input_model[chain[1]]
            THEN raised' = "ValueError" /\ queues' = queues
            ELSE /\ raised' = "none"
                 /\ input_queue[chain[1]] # NoQueue
                 /\ queues' = [queues EXCEPT ![input_queue[chain[1]]] = Append(@, NextInput)]]_vars
    /\ [][\A t \in InputTypes : GraphPushInput(t, NextInput) =>
            IF graph_keys = <<>> \/ t # input_model[graph_keys[1]]
            THEN raised' = "ValueError" /\ queues' = queues
            ELSE /\ raised' = "none"
                 /\ input_queue[graph_keys[1]] # NoQueue
                 /\ queues' = [queues EXCEPT ![input_queue[graph_keys[1]]] = Append(@, NextInput)]]_vars
    /\ [][queues' # queues => raised' = "none"]_vars

\* the graph with root P1 has taken an input on the root's input queue and on
\* no other queue, and a push into the chain of P2 has then been rejected
C22_Witness ==
    /\ graph_keys = <<"P1", "P2", "P3">>
    /\ chain = <<"P2">>
    /\ pushed = <<1>>
    /\ input_queue["P1"] # NoQueue
    /\ queues[input_queue["P1"]] = <<1>>
    /\ \A q \in 1 .. Len(queues) : q # input_queue["P1"] => queues[q] = <<>>
    /\ raised = "ValueError"

\* ------------------------------------------------------ properties: chain
\* the one output queue of the last processor of the chain
TailOutput ==
    queues[output_queues[chain[Len(chain)]][1]]

\* C23: chain.has_output is true exactly when the output queue of the last
\* processor is not empty; every value chain.get_output returns is None or a
\* Result with the name of the last processor, every Result returned was the
\* head of the last processor's output queue, taken from it in that step, and
\* the caller's calls change no other queue; what waits in the queue between
\* the stages is never returned
C23_ChainTailOnly ==
    /\ [](ChainHasOutput <=> TailOutput # <<>>)
    /\ [](\A k \in 1 .. Len(outputs) : outputs[k].processor = chain[Len(chain)])
    /\ [](ret = NoResult \/ ret.processor = chain[Len(chain)])
    /\ [](cpc \in {"get_scan", "get_get"} => cp = chain[Len(chain)])
    /\ [][outputs' # outputs =>
            /\ TailOutput # <<>>
            /\ outputs' = Append(outputs, Result(chain[Len(chain)], Head(TailOutput)))
            /\ ret' = Result(chain[Len(chain)], Head(TailOutput))
            /\ queues' = [queues EXCEPT ![output_queues[chain[Len(chain)]][1]] = Tail(@)]]_vars
    /\ [][(ChainGetOutput \/ GetOutputScan) => queues' = queues]_vars

\* the chain has returned the result of the first input; the first stage's
\* result of the second input waits between the stages, the last processor's
\* output queue is empty, and chain.get_output has returned None
C23_Witness ==
    /\ ChainMatch
    /\ Idle
    /\ pushed = <<1, 2>>
    /\ outputs = <<Result("P2", TargetFunction("P2", TargetFunction("P1", 1)))>>
    /\ queues[output_queues["P1"][1]] = <<TargetFunction("P1", 2)>>
    /\ TailOutput = <<>>
    /\ ~ChainHasOutput
    /\ ret = NoResult

\* ------------------------------------------------------ properties: graph.get_output
\* three processors constructed and nothing added to the graph
InitGraphEmpty ==
    /\ Constructed(<<"P1", "P2", "P3">>,
                   [p \in Procs |-> IF p = "P1" THEN "AddInputModel" ELSE "AddOutputModel"],
                   [p \in Procs |-> "AddOutputModel"],
                   [p \in Procs |-> 1],
                   [p \in Procs |-> "ok"])
    /\ chain = <<>>
    /\ graph_keys = <<>>
    /\ graph_children = [p \in Procs |-> <<>>]
    /\ current_terminal_processor_index = -1

\* a graph with no, one or two terminal processors
InitGraphGet ==
    InitGraphEmpty \/ InitGraphDag \/ InitGraph

SpecGraphGet ==
    InitGraphGet /\ [][NextGraph]_vars

\* the terminal processor at cursor position c (0-based)
TerminalAt(c) ==
    Terminals[c + 1]

\* the position after cursor c among n terminal processors, wrapping
PositionAfter(c, n) ==
    (c + 1) % n

\* C24: n being the number of keys without child and c the cursor, a
\* graph.get_output call with n = 0 returns None at once; with n > 0 it
\* examines terminals one at a time, each time first moving the cursor to the
\* next position (c + 1 modulo n), at most n of them; at the first one examined
\* that has output it stops, the cursor stays at that position, and the value
\* returned is the Result at the head of that terminal's output queue; it
\* returns None only after n examinations each of which found no output
C24_GraphGetOutput ==
    /\ [][GraphGetOutput =>
            /\ current_terminal_processor_index' = current_terminal_processor_index
            /\ queues' = queues
            /\ IF Len(Terminals) = 0
               THEN ret' = NoResult /\ opc' = "none"
               ELSE opc' = "graph_get" /\ oi' = Len(Terminals)]_vars
    /\ [](opc = "graph_get" => oi \in 1 .. Len(Terminals))
    /\ [](current_terminal_processor_index \in -1 .. (Len(Terminals) - 1))
    /\ [][GraphGetOutputNext =>
            LET c == PositionAfter(current_terminal_processor_index, Len(Terminals))
            IN /\ current_terminal_processor_index' = c
               /\ queues' = queues
               /\ IF has_output(TerminalAt(c))
                  THEN opc' = "none" /\ cpc' = "get_scan" /\ cp' = TerminalAt(c)
                  ELSE IF oi = 1
                       THEN opc' = "none" /\ cpc' = "idle" /\ ret' = NoResult
                       ELSE opc' = "graph_get" /\ oi' = oi - 1 /\ ret' = ret]_vars
    /\ [][current_terminal_processor_index' # current_terminal_processor_index =>
            opc = "graph_get" /\ cpc = "idle"]_vars
    /\ [](cpc \in {"get_scan", "get_get"} =>
            /\ cp = TerminalAt(current_terminal_processor_index)
            /\ has_output(cp))
    /\ [][outputs' # outputs =>
            /\ ret' = Result(cp, Head(queues[output_queues[cp][1]]))
            /\ outputs' = Append(outputs, ret')
            /\ cp = TerminalAt(current_terminal_processor_index)
            /\ cpc' = "idle"]_vars
    /\ [][(ret' = NoResult /\ ret # NoResult) =>
            /\ opc = "graph_get"
            /\ oi = 1
            /\ ~has_output(TerminalAt(current_terminal_processor_index'))]_vars

\* with the cursor before the first of two terminals, the first terminal was
\* examined and had no output, the second one had: its Result was returned and
\* the cursor is at the second position
C24_Witness ==
    /\ Len(Terminals) = 2
    /\ Idle
    /\ current_terminal_processor_index = 1
    /\ Len(outputs) = 1
    /\ outputs[1].processor = TerminalAt(1)
    /\ ret = outputs[1]

\* the terminal processor after t in insertion order, the first one after the
\* last
TerminalAfter(t) ==
    LET k == CHOOSE j \in 1 .. Len(Terminals) : Terminals[j] = t
    IN Terminals[(k % Len(Terminals)) + 1]

\* C25: with n terminal processors, a terminal whose output has been waiting
\* since before a graph.get_output call began is returned by that call or one
\* of the n - 1 calls after it, whatever the workers of the other terminals do:
\* no terminal ever sees more than n calls begin while its output waits; and as
\* long as every call so far found output at every terminal, each Result
\* returned comes from the terminal after the one of the Result before, so
\* that any n consecutive Results come from n different terminals
C25_NoStarvation ==
    /\ \A t \in Range(Terminals) : waited[t] <= Len(Terminals)
    /\ \A t \in Procs : waited[t] > 0 => (t \in Range(Terminals) /\ has_output(t))
    /\ saturated =>
          /\ \A j \in 1 .. (Len(outputs) - 1) :
                outputs[j + 1].processor = TerminalAfter(outputs[j].processor)
          /\ \A j \in 1 .. (Len(outputs) - Len(Terminals) + 1) :
                {outputs[k].processor : k \in j .. (j + Len(Terminals) - 1)} = Range(Terminals)

\* one of two terminals had output when a call began that returned the other
\* terminal's, and is being returned in the call after it
C25_Witness ==
    /\ Len(Terminals) = 2
    /\ cpc = "get_get"
    /\ waited[cp] = 2
    /\ Len(outputs) >= 1
    /\ outputs[Len(outputs)].processor # cp

\* ------------------------------------------------------ properties: graph.has_output
\* the caller of a graph starts it, pushes input and asks whether there is
\* output; nothing is taken out
NextGraphHasOutput ==
    \/ GraphStart
    \/ GraphStartNext
    \/ \E t \in {"AddInputModel", "AddOutputModel"} : GraphPushInput(t, NextInput)
    \/ GraphHasOutputCall
    \/ Workers("P1")
    \/ Workers("P2")
    \/ Workers("P3")

SpecGraphHasOutput ==
    InitGraph /\ [][NextGraphHasOutput]_vars

\* some output queue of processor p is not empty
SomeOutput(p) ==
    \E q \in Range(output_queues[p]) : queues[q] # <<>>

\* C26: a graph.has_output call returns True when some key with an empty child
\* list has an output queue that is not empty, and False otherwise, whatever
\* the output queues of the keys that have children hold; it changes no queue,
\* not the cursor and nothing else of the graph or its processors
C26_GraphHasOutput ==
    [][GraphHasOutputCall =>
         /\ ret' = Value(IF \E t \in Range(graph_keys) :
                               graph_children[t] = <<>> /\ SomeOutput(t)
                         THEN 1 ELSE 0)
         /\ UNCHANGED <<procVars, queues, workerVars, containerVars, outputs>>]_vars

\* graph.has_output has returned False; no terminal processor has output, the
\* root, which has children, has results in its own output queue
C26_Witness ==
    /\ ret = Value(0)
    /\ SomeOutput("P1")
    /\ graph_children["P1"] # <<>>
    /\ \A t \in Range(graph_keys) : graph_children[t] = <<>> => ~SomeOutput(t)

\* ------------------------------------------------------ properties: setup function
\* one processor with the setup function generate_number, with or without
\* input model, any number of instances
InitSetup ==
    /\ \E im \in {"AddInputModel", NoModel}, n \in 1 .. MaxInstances, sf \in SetupFunctions :
          ConstructedWith(<<"P1">>,
                          [p \in Procs |-> IF p = "P1" THEN im ELSE NoModel],
                          [p \in Procs |-> IF p = "P1" THEN "AddOutputModel" ELSE NoModel],
                          [p \in Procs |-> IF p = "P1" THEN n ELSE 0],
                          [p \in Procs |-> "ok"],
                          [p \in Procs |-> IF p = "P1" THEN sf ELSE NoFunction])
    /\ NoContainer

\* the processor is started and fed; its workers run the setup function and
\* then their loop
NextSetup ==
    \/ start("P1")
    \/ push_input("P1", NextInput)
    \/ \E i \in Inst : RunSetup("P1", i)
    \/ Workers("P1")

SpecSetup ==
    InitSetup /\ [][NextSetup]_vars

\* C27: a worker of a processor with a setup function is spawned before the
\* call of the setup function and comes to it in no other way; the step that
\* leaves it stores what the setup function returned and is the only step that
\* changes the worker's keyword arguments; a worker calls the target function
\* only after that step, every result of every instance carries the keyword
\* argument the setup function returned, and so does everything put on the
\* output queue
C27_SetupOnce ==
    /\ [][Spawned => \A i \in 0 .. (instances["P1"] - 1) : wpc'["P1"][i] = "setup"]_vars
    /\ [][\A i \in Inst :
            /\ wpc'["P1"][i] = "setup" => (wpc["P1"][i] = "setup" \/ Spawned)
            /\ kwargs'["P1"][i] # kwargs["P1"][i] =>
                  /\ wpc["P1"][i] = "setup"
                  /\ wpc'["P1"][i] = "check"
                  /\ kwargs'["P1"][i] = SetupValue(setup_function["P1"])
            /\ (wpc["P1"][i] = "setup" /\ wpc'["P1"][i] # "setup") =>
                  kwargs'["P1"][i] = SetupValue(setup_function["P1"])
            /\ wpc["P1"][i] = "setup" => stats'["P1"][i] = 0]_vars
    /\ [](\A i \in Inst :
            /\ wpc["P1"][i] \in {"none", "setup"} =>
                  (kwargs["P1"][i] = NoKwargs /\ wresult["P1"][i] = None /\ stats["P1"][i] = 0)
            /\ wpc["P1"][i] \notin {"none", "setup"} =>
                  kwargs["P1"][i] = SetupValue(setup_function["P1"])
            /\ wresult["P1"][i] # None =>
                  \E x \in 0 .. MaxPush :
                     wresult["P1"][i] = TargetFunction("P1", x) + SetupValue(setup_function["P1"]))
    /\ [](\A k \in 1 .. Len(queues[output_queues["P1"][1]]) :
            \E x \in 0 .. MaxPush :
               queues[output_queues["P1"][1]][k]
                  = TargetFunction("P1", x) + SetupValue(setup_function["P1"]))
    /\ [](input_queue["P1"] # NoQueue /\ instances["P1"] = 1 =>
            \A k \in 1 .. Len(queues[output_queues["P1"][1]]) :
               queues[output_queues["P1"][1]][k]
                  = TargetFunction("P1", pushed[k]) + SetupValue(setup_function["P1"]))

\* the one worker has called the setup function and then handled two inputs:
\* both results carry the generated number
C27_Witness ==
    /\ instances["P1"] = 1
    /\ pushed = <<1, 2>>
    /\ queues[output_queues["P1"][1]]
          = <<TargetFunction("P1", 1) + SetupValue("generate_number"),
              TargetFunction("P1", 2) + SetupValue("generate_number")>>

\* ------------------------------------------------------ properties: delay
\* no delay argument, and the delay of test_processor_delay
NoDelay == 0
TestDelay == 2

\* no Processor has been constructed yet
InitNothing ==
    /\ Constructed(<<>>,
                   [p \in Procs |-> NoModel],
                   [p \in Procs |-> NoModel],
                   [p \in Procs |-> 0],
                   [p \in Procs |-> "ok"])
    /\ NoContainer

\* Processor(target_function, "P1", input_model = im, output_model = om,
\* instances = n), with the keyword argument delay = d added when d is not
\* NoDelay: __init__ (lines 86-93) has no parameter `delay`, so the call with
\* it raises TypeError and constructs nothing
ProcessorInit(im, om, n, d) ==
    /\ Idle
    /\ instances["P1"] = 0
    /\ IF d # NoDelay
       THEN /\ raised' = "TypeError"
            /\ UNCHANGED <<procVars, queues, workerVars, containerVars, cpc, cp, ci, ret,
                           opc, oi, historyVars>>
       ELSE LET ims == [input_model EXCEPT !["P1"] = im]
                oms == [output_model EXCEPT !["P1"] = om]
                sq == SetupQueues(<<"P1">>, ims, oms, 0)
            IN /\ input_model' = ims
               /\ output_model' = oms
               /\ instances' = [instances EXCEPT !["P1"] = n]
               /\ input_queue' = [input_queue EXCEPT !["P1"] = sq["P1"][1]]
               /\ output_queues' = [output_queues EXCEPT !["P1"] = sq["P1"][2]]
               /\ queues' = [k \in 1 .. CountQueues(<<"P1">>, ims, oms) |-> <<>>]
               /\ raised' = "none"
               /\ UNCHANGED <<target_function, setup_function, processes, signal_queues,
                              stats, workerVars, containerVars, cpc, cp, ci, ret, opc, oi,
                              historyVars>>

\* the processor P1 exists
Exists ==
    instances["P1"] > 0

\* a caller constructs a processor, with or without delay, and uses it
NextDelay ==
    \/ \E im \in {"AddInputModel", NoModel}, om \in {"AddOutputModel", NoModel},
          n \in 1 .. MaxInstances, d \in {NoDelay, TestDelay} : ProcessorInit(im, om, n, d)
    \/ Exists /\ start("P1")
    \/ Exists /\ push_input("P1", NextInput)
    \/ Exists /\ get_output("P1")
    \/ GetOutputScan
    \/ GetOutputGet
    \/ Workers("P1")

SpecDelay ==
    InitNothing /\ [][NextDelay]_vars

\* C28: a Processor can be constructed with a fixed per-item delay: the
\* construction does not raise and yields the processor whose workers are to
\* pause for the delay after each item
C28_DelayConstructed ==
    [][\A im \in {"AddInputModel", NoModel}, om \in {"AddOutputModel", NoModel},
          n \in 1 .. MaxInstances :
          ProcessorInit(im, om, n, TestDelay) => (raised' = "none" /\ Exists')]_vars

\* ------------------------------------------------------ properties: instances
\* inputs_processed of instance i of P1 (get_stats, Stats.inputs_processed)
InputsProcessed(i) ==
    stats["P1"][i]

\* P1 is started, has been pushed at least as many inputs as it has instances,
\* and every pushed input has been counted as processed
AllProcessed ==
    /\ input_queue["P1"] # NoQueue
    /\ processes["P1"] # <<>>
    /\ Len(pushed) >= instances["P1"]
    /\ SumTo(stats["P1"], MaxInstances) = Len(pushed)

\* C29: once all M >= N inputs pushed to a started processor with N instances
\* have been processed, the processed counter of every instance is greater
\* than 0
C29_EveryInstanceCounts ==
    AllProcessed => \A i \in Inst : i < instances["P1"] => InputsProcessed(i) > 0

\* ------------------------------------------------------ properties: edge queues
\* ProcessorGraph.start has run _build_processor_chain
Wired ==
    start_calls > 0

\* the children of s whose input queue is q
Readers(s, q) ==
    {c \in Range(graph_children[s]) : input_queue[c] = q}

\* C30: once start has wired the graph, a parent with K children owns exactly
\* K output queues, and each of them is the input queue of exactly one of its
\* children
C30_QueuePerEdge ==
    Wired =>
       \A s \in Range(graph_keys) :
          graph_children[s] # <<>> =>
             /\ Len(output_queues[s]) = Len(graph_children[s])
             /\ \A k \in 1 .. Len(output_queues[s]) :
                   Cardinality(Readers(s, output_queues[s][k])) = 1

\* ------------------------------------------------------ properties: root
\* C31: after any sequence of add_processor calls the first processor added is
\* in the child list of no processor
C31_RootHasNoParent ==
    graph_keys # <<>> => \A s \in Procs : FirstProcessor \notin Range(graph_children[s])

\* ------------------------------------------------------ containers: start
\* the containers of the specification of start: an empty chain and an empty
\* graph; the chain P1, P2, P3 whose head declares an input model, an output
\* model, both or neither; the graph of add_processor(P1)
StartChoices ==
    {[chain |-> <<>>, keys |-> <<>>, im1 |-> "AddInputModel", om1 |-> "AddOutputModel"],
     [chain |-> <<>>, keys |-> <<"P1">>, im1 |-> "AddInputModel", om1 |-> "AddOutputModel"]}
    \cup {[chain |-> <<"P1", "P2", "P3">>, keys |-> <<>>, im1 |-> im, om1 |-> om] :
             im \in {"AddInputModel", NoModel}, om \in {"AddOutputModel", NoModel}}

InitStart ==
    \E c \in StartChoices :
       /\ Constructed(<<"P1", "P2", "P3">>,
                      [p \in Procs |-> IF p = "P1" THEN c.im1 ELSE "AddOutputModel"],
                      [p \in Procs |-> IF p = "P1" THEN c.om1 ELSE "AddOutputModel"],
                      [p \in Procs |-> 1],
                      [p \in Procs |-> "ok"])
       /\ chain = c.chain
       /\ graph_keys = c.keys
       /\ graph_children = [p \in Procs |-> <<>>]
       /\ current_terminal_processor_index = -1

\* start of a chain or of a graph, input for the chain, and the workers
NextStart ==
    \/ ChainStart
    \/ ChainStartNext
    \/ GraphStart
    \/ GraphStartNext
    \/ ChainPushInput("AddInputModel", NextInput)
    \/ Workers("P1")
    \/ Workers("P2")
    \/ Workers("P3")

SpecStart ==
    InitStart /\ [][NextStart]_vars

\* every processor of the chain but the first has the sole output queue of the
\* processor before it as its input queue
ChainWired ==
    \A k \in 2 .. Len(chain) :
       /\ Len(output_queues[chain[k - 1]]) <= 1
       /\ input_queue[chain[k]] = get_output_queue(chain[k - 1])

\* the processors of the chain that have workers
ChainStarted ==
    {k \in 1 .. Len(chain) : processes[chain[k]] # <<>>}

\* C32: start of an empty chain and start of an empty graph raise and spawn
\* nothing; a chain.start that gets through validation has wired every
\* adjacent pair and has spawned nothing yet, one that raises spawns nothing;
\* the processors of a chain are started one per step in list order; whenever
\* a processor of the chain has workers the whole chain is wired and each of
\* its workers reads the queue the processor before it writes
C32_StartOrder ==
    /\ [][((ChainStart /\ chain = <<>>) \/ (GraphStart /\ graph_keys = <<>>)) =>
            (raised' = "ValueError" /\ opc' = "none" /\ processes' = processes /\ wpc' = wpc)]_vars
    /\ [][(ChainStart /\ chain # <<>>) =>
            /\ processes' = processes /\ wpc' = wpc
            /\ IF raised' = "none" THEN ChainWired' /\ opc' = "chain_start" ELSE opc' = "none"]_vars
    /\ [][chain # <<>> /\ ChainStarted' # ChainStarted =>
            /\ opc = "chain_start"
            /\ ChainStarted = 1 .. Cardinality(ChainStarted)
            /\ ChainStarted' = 1 .. (Cardinality(ChainStarted) + 1)]_vars
    /\ [](ChainStarted # {} =>
            /\ ChainWired
            /\ \A k \in ChainStarted :
                  k > 1 => run_input_queue[chain[k]] = get_output_queue(chain[k - 1]))

\* the chain P1, P2, P3 is started, an input has gone through the first two
\* stages and the worker of the last stage holds its result
C32_Witness ==
    /\ chain = <<"P1", "P2", "P3">>
    /\ ChainStarted = {1, 2, 3}
    /\ opc = "none"
    /\ raised = "none"
    /\ pushed # <<>>
    /\ wpc["P3"][0] = "count"
    /\ wresult["P3"][0] = TargetFunction("P3", TargetFunction("P2", TargetFunction("P1", 1)))

\* every adjacent pair of the chain declares one type as the output of its
\* first and the input of its second processor
AdjacentTypesMatch ==
    \A k \in 2 .. Len(chain) : output_model[chain[k - 1]] = input_model[chain[k]]

\* C33: chain.start on a chain that is not empty, has no started processor and
\* whose adjacent declared types all match does not raise, also when the head
\* of the chain is a source stage without input type
C33_MatchingChainStarts ==
    [][(ChainStart /\ chain # <<>> /\ ChainStarted = {} /\ AdjacentTypesMatch) =>
          (raised' = "none" /\ ChainWired' /\ opc' = "chain_start")]_vars

\* ------------------------------------------------------ properties: failing setup
\* one processor whose setup function can raise: two instances that take
\* input, or a source stage of one instance
InitSetupFails ==
    /\ \E im \in {"AddInputModel", NoModel}, n \in {1, 2} :
          /\ n = (IF im = NoModel THEN 1 ELSE 2)
          /\ ConstructedWith(<<"P1">>,
                             [p \in Procs |-> IF p = "P1" THEN im ELSE NoModel],
                             [p \in Procs |-> IF p = "P1" THEN "AddOutputModel" ELSE NoModel],
                             [p \in Procs |-> IF p = "P1" THEN n ELSE 0],
                             [p \in Procs |-> "ok"],
                             [p \in Procs |-> IF p = "P1" THEN FailingSetup ELSE NoFunction])
    /\ NoContainer

\* the processor is started, fed and shut down once; each worker runs the setup
\* function, which returns or raises, and then its loop
NextSetupFails ==
    \/ start("P1")
    \/ push_input("P1", NextInput)
    \/ (Idle /\ shutdown_calls["P1"] = 0 /\ shutdown("P1"))
    \/ ShutdownSteps
    \/ \E i \in Inst : RunSetup("P1", i)
    \/ Workers("P1")

\* every worker process and the thread inside shutdown keep being scheduled
SpecSetupFailsFair ==
    /\ InitSetupFails
    /\ [][NextSetupFails]_vars
    /\ \A i \in Inst : WF_vars(_run("P1", i) \/ RunSetup("P1", i))
    /\ WF_vars(ShutdownSteps)

\* the setup function of instance i of P1 raised: the worker is gone and never
\* got keyword arguments
SetupFailed(i) ==
    /\ i < instances["P1"]
    /\ wpc["P1"][i] = "dead"
    /\ kwargs["P1"][i] = NoKwargs

\* C34: a worker whose setup function raises ends in that step, which changes
\* no counter, no queue, no keyword argument and no other worker; it stays
\* ended, has counted nothing, holds no input and no result, and is not alive;
\* when the setup function raised in every instance nothing is taken from the
\* input queue and nothing is put on the output queue; no step of a shutdown
\* raises, a shutdown call that finds no instance alive returns at once, and
\* with the workers and the shutdown thread scheduled every shutdown call
\* returns
C34_SetupError ==
    /\ [][\A i \in Inst :
            (wpc["P1"][i] = "setup" /\ wpc'["P1"][i] = "dead") =>
               /\ stats' = stats /\ queues' = queues /\ kwargs' = kwargs
               /\ SetupFailed(i)'
               /\ \A j \in Inst : j # i => WorkerState(j)' = WorkerState(j)]_vars
    /\ [][\A i \in Inst : SetupFailed(i) => SetupFailed(i)']_vars
    /\ [](\A i \in Inst :
            SetupFailed(i) =>
               /\ stats["P1"][i] = 0
               /\ winput["P1"][i] = None /\ wresult["P1"][i] = None
               /\ ~is_alive("P1", i))
    /\ []((processes["P1"] # <<>> /\ \A i \in 0 .. (instances["P1"] - 1) : SetupFailed(i)) =>
            /\ input_queue["P1"] # NoQueue => queues[input_queue["P1"]] = pushed
            /\ \A k \in 1 .. Len(output_queues["P1"]) : queues[output_queues["P1"][k]] = <<>>)
    /\ [][(shutdown_calls' # shutdown_calls \/ cpc \in {"sd_for", "sd_put", "sd_join"}) =>
            raised' = "none"]_vars
    /\ [][(shutdown_calls' # shutdown_calls /\ Alive("P1") = {}) =>
            (shutdown_returns'["P1"] = shutdown_returns["P1"] + 1 /\ cpc' = "idle")]_vars
    /\ (shutdown_calls["P1"] > shutdown_returns["P1"]) ~>
          (shutdown_calls["P1"] = shutdown_returns["P1"])

\* of two instances the setup function raised in one; the other has processed
\* an input, and a shutdown call made after that has returned
C34_Witness ==
    /\ instances["P1"] = 2
    /\ SetupFailed(0)
    /\ stats["P1"][1] = 1
    /\ wpc["P1"][1] = "dead"
    /\ shutdown_calls["P1"] = 1
    /\ shutdown_returns["P1"] = 1
    /\ raised = "none"

\* ------------------------------------------------------ properties: cancellation
\* C35: a worker at the top of its iteration that has a shutdown signal on its
\* signal queue takes the signal and exits in its next step, which changes no
\* data queue and no counter; a worker leaves its signal check towards an
\* input only with an empty signal queue; only the worker takes signals off its
\* queue, and it exits when it does; a worker that leaves its wait with a
\* signal pending (with an input and a target invocation, or on the timeout)
\* had entered the wait before the signal was put, keeps the signal pending, and
\* from the positions after the wait it does not come to a further wait: it
\* begins at most one target invocation after the signal was put
C35_CooperativeCancel ==
    /\ [][\A i \in Inst :
            (wpc["P1"][i] = "check" /\ signal_queues["P1"][i] > 0 /\ wpc'["P1"][i] # "check") =>
               /\ wpc'["P1"][i] = "dead"
               /\ signal_queues'["P1"][i] = signal_queues["P1"][i] - 1
               /\ queues' = queues /\ stats' = stats]_vars
    /\ [][\A i \in Inst :
            (wpc["P1"][i] # "input" /\ wpc'["P1"][i] = "input") =>
               (wpc["P1"][i] = "check" /\ signal_queues["P1"][i] = 0)]_vars
    /\ [][\A i \in Inst :
            signal_queues'["P1"][i] < signal_queues["P1"][i] =>
               (wpc["P1"][i] = "check" /\ wpc'["P1"][i] = "dead")]_vars
    /\ [][\A i \in Inst :
            (wpc["P1"][i] = "input" /\ wpc'["P1"][i] # "input" /\ signal_queues["P1"][i] > 0) =>
               /\ wpc'["P1"][i] \in {"invoke", "count", "put", "check"}
               /\ signal_queues'["P1"][i] > 0]_vars
    /\ [][\A i \in Inst :
            (signal_queues["P1"][i] > 0 /\ wpc["P1"][i] \in {"invoke", "count", "put", "check", "dead"}) =>
               wpc'["P1"][i] \in {"invoke", "count", "put", "check", "dead"}]_vars
    /\ [][\A i \in Inst : wpc["P1"][i] = "dead" => wpc'["P1"][i] = "dead"]_vars

\* the single worker was signalled with two inputs queued: it has handled the
\* first, has exited on the signal, and the second input is still queued
C35_Witness ==
    /\ instances["P1"] = 1
    /\ input_queue["P1"] # NoQueue
    /\ pushed = <<1, 2>>
    /\ queues[input_queue["P1"]] = <<2>>
    /\ stats["P1"][0] = 1
    /\ wpc["P1"][0] = "dead"
    /\ signal_queues["P1"][0] = 0
    /\ shutdown_returns["P1"] = 1

\* ------------------------------------------------------ containers: shutdown
\* the list a container's shutdown walks: self.processors (chain.py line 66),
\* self._processor_graph.keys() (graph.py line 84)
ShutdownList ==
    IF opc = "chain_shutdown" THEN chain ELSE graph_keys

\* ShutdownTarget of a loop that walks the list from its end
ShutdownTargetFromEnd(k) ==
    ShutdownList[Len(ShutdownList) + 1 - k]

\* the processor the k-th round of the loop shuts down
ShutdownTarget(k) ==
    ShutdownList[k]

\* ProcessorChain.shutdown and ProcessorGraph.shutdown: the call; the calls are
\* counted per processor, at most MaxShutdownCalls each
ContainerShutdown(kind, list) ==
    /\ Idle
    /\ \A p \in Range(list) : shutdown_calls[p] < MaxShutdownCalls
    /\ opc' = kind
    /\ oi' = 1
    /\ raised' = "none"
    /\ UNCHANGED <<procVars, queues, workerVars, containerVars, cpc, cp, ci, ret, historyVars>>

ChainShutdown ==
    ContainerShutdown("chain_shutdown", chain)

GraphShutdown ==
    ContainerShutdown("graph_shutdown", graph_keys)

\* the loop of the container's shutdown: once the previous processor.shutdown()
\* has returned, the next one is called, or the loop ends
ContainerShutdownNext ==
    /\ opc \in {"chain_shutdown", "graph_shutdown"}
    /\ cpc = "idle"
    /\ IF oi > Len(ShutdownList)
       THEN /\ opc' = "none"
            /\ oi' = 0
            /\ UNCHANGED <<procVars, queues, workerVars, containerVars, cpc, cp, ci, ret,
                           raised, historyVars>>
       ELSE /\ ShutdownEffect(ShutdownTarget(oi))
            /\ opc' = opc
            /\ oi' = oi + 1

\* the chain P1, P2, or the graph of add_processor(P1), add_processor(P2, P1)
\* whose root is a source stage; one instance each
InitContainerShutdown ==
    \E c \in {"chain", "graph"} :
       /\ Constructed(<<"P1", "P2">>,
                      [p \in Procs |-> CASE p = "P1" -> (IF c = "chain" THEN "AddInputModel" ELSE NoModel)
                                         [] p = "P2" -> "AddOutputModel"
                                         [] OTHER -> NoModel],
                      [p \in Procs |-> IF p \in {"P1", "P2"} THEN "AddOutputModel" ELSE NoModel],
                      [p \in Procs |-> IF p \in {"P1", "P2"} THEN 1 ELSE 0],
                      [p \in Procs |-> "ok"])
       /\ chain = (IF c = "chain" THEN <<"P1", "P2">> ELSE <<>>)
       /\ graph_keys = (IF c = "graph" THEN <<"P1", "P2">> ELSE <<>>)
       /\ graph_children = [p \in Procs |-> IF c = "graph" /\ p = "P1" THEN <<"P2">> ELSE <<>>]
       /\ current_terminal_processor_index = -1

\* a chain or a graph is started, the chain is fed, and the container is shut
\* down
NextContainerShutdown ==
    \/ (chain # <<>> /\ ChainStart)
    \/ ChainStartNext
    \/ (graph_keys # <<>> /\ GraphStart)
    \/ GraphStartNext
    \/ (chain # <<>> /\ ChainPushInput("AddInputModel", NextInput))
    \/ (chain # <<>> /\ ChainShutdown)
    \/ (graph_keys # <<>> /\ GraphShutdown)
    \/ ContainerShutdownNext
    \/ ShutdownSteps
    \/ Workers("P1")
    \/ Workers("P2")

\* the workers and the thread inside the container's shutdown keep being
\* scheduled
SpecContainerShutdownFair ==
    /\ InitContainerShutdown
    /\ [][NextContainerShutdown]_vars
    /\ WF_vars(_run("P1", 0))
    /\ WF_vars(_run("P2", 0))
    /\ WF_vars(ShutdownSteps)
    /\ WF_vars(ContainerShutdownNext)

\* the caller is inside a container's shutdown
InContainerShutdown ==
    opc \in {"chain_shutdown", "graph_shutdown"}

\* C36: a container's shutdown calls processor.shutdown in the order of its
\* list, one call per processor, each made when the call before it has returned
\* and every processor earlier in the list has no worker alive; a shutdown
\* signal is put only on a queue of the processor whose shutdown is running,
\* while no earlier processor has a worker alive; when the container's shutdown
\* returns, every processor's shutdown has returned, no worker of any
\* processor of the container is alive and nothing was raised; with the
\* workers and the caller scheduled the container's shutdown returns
C36_ContainerShutdown ==
    /\ [][shutdown_calls' # shutdown_calls =>
            /\ InContainerShutdown
            /\ cpc = "idle"
            /\ \E k \in 1 .. Len(ShutdownList) :
                  /\ shutdown_calls' = [shutdown_calls EXCEPT ![ShutdownList[k]] = @ + 1]
                  /\ \A j \in 1 .. (k - 1) :
                        /\ shutdown_returns[ShutdownList[j]] = shutdown_calls'[ShutdownList[k]]
                        /\ Alive(ShutdownList[j]) = {}
                  /\ \A j \in (k + 1) .. Len(ShutdownList) :
                        shutdown_calls[ShutdownList[j]] = shutdown_calls[ShutdownList[k]]]_vars
    /\ [][signal_queues' # signal_queues /\ cpc = "sd_put" =>
            /\ InContainerShutdown
            /\ \E k \in 1 .. Len(ShutdownList) :
                  /\ cp = ShutdownList[k]
                  /\ \A p \in Procs : p # cp => signal_queues'[p] = signal_queues[p]
                  /\ \A j \in 1 .. (k - 1) : Alive(ShutdownList[j]) = {}]_vars
    /\ [][(InContainerShutdown /\ ~InContainerShutdown') =>
            /\ raised' = "none"
            /\ \A p \in Range(ShutdownList) :
                  /\ Alive(p)' = {}
                  /\ shutdown_returns'[p] = shutdown_calls'[p]]_vars
    /\ InContainerShutdown ~> ~InContainerShutdown

\* the chain P1, P2 was started and has handled an input; its shutdown has
\* returned with both workers exited
C36_Witness ==
    /\ chain = <<"P1", "P2">>
    /\ opc = "none" /\ cpc = "idle"
    /\ stats["P1"][0] = 1 /\ stats["P2"][0] = 1
    /\ wpc["P1"][0] = "dead" /\ wpc["P2"][0] = "dead"
    /\ shutdown_returns["P1"] = 1 /\ shutdown_returns["P2"] = 1
    /\ lifecycle["P1"] = "shutdown" /\ lifecycle["P2"] = "shutdown"

\* ------------------------------------------------------ properties: materialization
\* start has not been called on P1
NotStarted ==
    lifecycle["P1"] = "new"

\* C37 as stated: a processor on which start has not been called has no input
\* queue, no output queue and no worker, push_input on it raises and
\* get_output on it returns None
C37_Original ==
    /\ [](NotStarted =>
            (input_queue["P1"] = NoQueue /\ output_queues["P1"] = <<>> /\ processes["P1"] = <<>>))
    /\ [][(NotStarted /\ push_input("P1", NextInput)) => raised' = "ValueError"]_vars
    /\ [][(NotStarted /\ get_output("P1")) => (ret' = NoResult /\ cpc' = "idle")]_vars

\* C37: a processor on which start has not been called has no worker; it has
\* had its queues since construction, an input queue exactly when it declares an
\* input model and one output queue exactly when it declares an output model;
\* its input queue holds the inputs pushed so far and its output queue is
\* empty; push_input on it raises exactly when it declares no input model and
\* queues the input otherwise; get_output on it returns None
C37_Materialized ==
    /\ [](NotStarted =>
            /\ processes["P1"] = <<>>
            /\ \A i \in Inst : wpc["P1"][i] = "none"
            /\ (input_queue["P1"] # NoQueue) <=> (input_model["P1"] # NoModel)
            /\ Len(output_queues["P1"]) = (IF output_model["P1"] # NoModel THEN 1 ELSE 0)
            /\ input_queue["P1"] # NoQueue => queues[input_queue["P1"]] = pushed
            /\ \A k \in 1 .. Len(output_queues["P1"]) : queues[output_queues["P1"][k]] = <<>>)
    /\ [][(NotStarted /\ push_input("P1", NextInput)) =>
            IF input_model["P1"] = NoModel
            THEN raised' = "ValueError" /\ queues' = queues
            ELSE /\ raised' = "none"
                 /\ queues'[input_queue["P1"]] = Append(queues[input_queue["P1"]], NextInput)]_vars
    /\ [][(NotStarted /\ get_output("P1")) => (ret' = NoResult /\ cpc' = "idle")]_vars

\* an input was pushed to a processor that has not been started: it is queued,
\* nothing was raised, no worker exists
C37_Witness ==
    /\ NotStarted
    /\ processes["P1"] = <<>>
    /\ input_queue["P1"] # NoQueue
    /\ pushed = <<1>>
    /\ queues[input_queue["P1"]] = <<1>>
    /\ raised = "none"

\* ------------------------------------------------------ properties: get_output
\* a started chain whose caller also asks the first processor for output: the
\* output queue of the first processor is the input queue of the second
NextChainHead ==
    \/ ChainStart
    \/ ChainStartNext
    \/ \E t \in {"AddInputModel", "AddOutputModel"} : ChainPushInput(t, NextInput)
    \/ get_output("P1")
    \/ GetOutputScan
    \/ GetOutputGet
    \/ Workers("P1")
    \/ Workers("P2")

SpecChainHead ==
    InitChain /\ [][NextChainHead]_vars

\* C38: get_output never waits: whenever it has come to its dequeue (line 129)
\* the queue it dequeues from holds an item, whatever other consumers of
\* that queue have done since the emptiness test
C38_GetOutputNeverWaits ==
    (cpc = "get_get" /\ output_queues[cp] # <<>>) => queues[output_queues[cp][ci]] # <<>>

\* ------------------------------------------------------ properties: empty polls
\* C39: a ProcessorGraph.get_output call that ends without having found output
\* returns None and leaves the cursor where the next call examines the
\* terminal this call examined first; every round of a call leaves the cursor
\* in 0 .. n - 1, where it stays; so every call that begins after a Result was
\* returned examines first the terminal after the one of that Result, however
\* many calls returned None in between
C39_EmptyPollKeepsTurn ==
    /\ [][(GraphGetOutputNext /\ opc' = "none" /\ cpc' = "idle") =>
            /\ ret' = NoResult
            /\ NextTerminalIndex(current_terminal_processor_index', Len(Terminals)) = poll_from]_vars
    /\ [][GraphGetOutputNext =>
            (current_terminal_processor_index' \in (0 .. (Len(Terminals) - 1)))]_vars
    /\ [][(current_terminal_processor_index \in (0 .. (Len(Terminals) - 1))) =>
            (current_terminal_processor_index' \in (0 .. (Len(Terminals) - 1)))]_vars
    /\ [][(GraphGetOutput /\ Terminals # <<>> /\ outputs # <<>>) =>
            Terminals[poll_from' + 1] = TerminalAfter(outputs[Len(outputs)].processor)]_vars

\* after a Result of the second terminal was returned, a call has examined the
\* first terminal and is about to examine the second one, and no terminal has
\* output: the call returns None
C39_Witness ==
    /\ Len(Terminals) = 2
    /\ opc = "graph_get"
    /\ oi = 1
    /\ poll_from = 0
    /\ outputs # <<>>
    /\ outputs[Len(outputs)].processor = Terminals[2]
    /\ \A k \in 1 .. 2 : ~has_output(Terminals[k])

\* ------------------------------------------ properties: a failing graph.start
\* p has workers, and the references a caller of p reaches are the queues those
\* workers were spawned with
AddressesRunningQueues(p) ==
    processes[p] # <<>> =>
       /\ input_queue[p] = run_input_queue[p]
       /\ output_queues[p] = run_output_queues[p]

\* C40: a graph.start call that fails leaves the wiring as it was: no processor
\* gains an output queue and no input queue reference is replaced, so that the
\* references of every processor with running workers are, whenever no start
\* call is under way, the queues those workers use
C40_FailedStartKeepsWiring ==
    opc # "graph_start" => \A p \in Range(graph_keys) : AddressesRunningQueues(p)

====
